---- MODULE Spec2Model ----
(***************************************************************************)
(* Iterative ptychographic reconstruction engine of py4DSTEM:              *)
(*   SingleslicePtychographicReconstruction.reconstruct                    *)
(*     (process/phase/iterative_singleslice_ptychography.py)               *)
(* as a state machine.  The instance attributes (self._object, ...) are    *)
(* the persistent variables, the locals of reconstruct() are the call      *)
(* variables, and pc is the position of the running call.  Spec is that    *)
(* machine.  SpecResolve applies the method resolution at the top of       *)
(* reconstruct(), of this class and of                                     *)
(* OverlapMagneticTomographicReconstruction, to one input each.            *)
(* SpecArrays applies the overlap operator, the drift constraint of the    *)
(* position correction and the projection-set adjoint to one input each,   *)
(* on an object array with RoiSize x RoiSize windows.  SpecPreprocess      *)
(* applies the probe initialisation of preprocess() to one initial guess.  *)
(* SpecConstraints applies the constraint chain to one choice of its       *)
(* gates.  SpecTomography is reconstruct() of the tomography class on the  *)
(* scan positions of its tilts.                                            *)
(*                                                                         *)
(* Numerical abstraction.  Arrays are abstracted to residues modulo        *)
(* NumVal: the object and the probe are one residue each, per-pattern      *)
(* arrays (amplitudes, overlaps, exit waves) are sequences with one        *)
(* residue per pattern.  Sums, differences and products of the code are the     *)
(* same operations on residues; fft2/ifft2 are the identity (a 1x1 region  *)
(* of interest); the normalisation factors are dropped.  What is kept      *)
(* exactly is the control flow, which array is read, which is written,     *)
(* and the slot/pattern correspondence.                                    *)
(* Reconstruction parameters are rationals with denominator ParamScale,    *)
(* stored as integers (value * ParamScale).                                *)
(***************************************************************************)
EXTENDS Integers, Sequences, FiniteSets, TLC

\* ------------------------------------------------------------------ bounds
NumPatterns == 2
MaxIter == 2
MaxCalls == 2
MaxOptions == 1
NumVal == 3
RoiSize == 2

\* np.inf, the default of fix_positions_iter and switch_object_iter
Inf == 1000
\* denominator of the reconstruction parameters of the model
ParamScale == 2

\* ------------------------------------------------------- optional values
\* Python None for an optional value; a present value v is <<v>>.
None == <<>>
Some(v) == <<v>>
IsNone(o) == o = <<>>
Get(o) == o[1]

Val == 0 .. (NumVal - 1)
Mod(x) == x % NumVal

Patterns == 1 .. NumPatterns
Identity == [k \in Patterns |-> k]

RECURSIVE SumSeq(_)
SumSeq(s) == IF s = <<>> THEN 0 ELSE Head(s) + SumSeq(Tail(s))

\* s[start+1 .. end], the Python slice s[start:end]
Slice(s, start, end) == [i \in 1 .. (end - start) |-> s[start + i]]

\* ---------------------------------------------- reconstruction method names
ShortNames == {"generalized-projection", "DM_AP", "RAAR", "RRR", "SUPERFLIP", "GD"}
LongNames == {"difference-map_alternating-projections",
              "relaxed-averaged-alternating-reflections",
              "relax-reflect-reflect", "charge-flipping", "gradient-descent"}
\* a name the code does not know: the spelling of the docstring of reconstruct()
UnknownNames == {"gradient_descent"}
MethodNames == ShortNames \cup LongNames \cup UnknownNames

\* A reconstruction_parameter: a scalar (shape ()) or a list (shape (n,)).
Scalar(p) == [shape |-> "scalar", val |-> <<p>>]
List(l) == [shape |-> "list", val |-> l]
IsTriple(param) == param.shape = "list" /\ Len(param.val) = 3

\* Result of the method resolution: the locals set by the if/elif chain.
\* (reconstruction_parameter is read again only by the verbose printout)
Resolved(use, abc, keepStep) ==
    [status |-> "ok", use_projection_scheme |-> use, projection |-> abc,
     keep_step_size |-> keepStep]
Raised(exc) ==
    [status |-> exc, use_projection_scheme |-> FALSE, projection |-> None,
     keep_step_size |-> FALSE]

\* the range check without its upper end
OutOfRangeBelowOnly(param, upper) == param.val[1] < 0
\* reconstruction_parameter < 0.0 or reconstruction_parameter > upper
OutOfRange(param, upper) == param.val[1] < 0 \/ param.val[1] > upper

\* the (projection_a, projection_b, projection_c) of the named families for a
\* scaled parameter p
\* DM_AP with (1 - p) for (1 + p)
TripleDMSign(p) == <<-p, ParamScale, ParamScale - p>>
\* DM_AP: (-p, 1, 1 + p)
TripleDM(p) == <<-p, ParamScale, ParamScale + p>>
\* RAAR with (1 - p) for (1 - 2p)
TripleRAARHalved(p) == <<ParamScale - p, p, 2 * ParamScale>>
\* RAAR: (1 - 2p, p, 2)
TripleRAAR(p) == <<ParamScale - 2 * p, p, 2 * ParamScale>>
\* RRR: (-p, p, 2)
TripleRRR(p) == <<-p, p, 2 * ParamScale>>
\* SUPERFLIP: (0, 1, 2)
TripleSUPERFLIP == <<0, ParamScale, 2 * ParamScale>>

\* The if/elif chain resolving reconstruction_method at the top of reconstruct().
\* Comparing a list with a float raises TypeError.
ResolveMethod(method, param) ==
    IF method = "generalized-projection"
    THEN IF ~IsTriple(param)
         THEN Raised("ValueError")
         ELSE Resolved(TRUE, Some(param.val), FALSE)
    ELSE IF method = "DM_AP" \/ method = "difference-map_alternating-projections"
    THEN IF param.shape # "scalar" THEN Raised("TypeError")
         ELSE IF OutOfRange(param, ParamScale) THEN Raised("ValueError")
         ELSE Resolved(TRUE, Some(TripleDM(param.val[1])), FALSE)
    ELSE IF method = "RAAR" \/ method = "relaxed-averaged-alternating-reflections"
    THEN IF param.shape # "scalar" THEN Raised("TypeError")
         ELSE IF OutOfRange(param, ParamScale) THEN Raised("ValueError")
         ELSE Resolved(TRUE, Some(TripleRAAR(param.val[1])), FALSE)
    ELSE IF method = "RRR" \/ method = "relax-reflect-reflect"
    THEN IF param.shape # "scalar" THEN Raised("TypeError")
         ELSE IF OutOfRange(param, 2 * ParamScale) THEN Raised("ValueError")
         ELSE Resolved(TRUE, Some(TripleRRR(param.val[1])), FALSE)
    ELSE IF method = "SUPERFLIP" \/ method = "charge-flipping"
    THEN Resolved(TRUE, Some(TripleSUPERFLIP), FALSE)
    ELSE IF method = "GD" \/ method = "gradient-descent"
    THEN Resolved(FALSE, None, TRUE)
    ELSE Raised("ValueError")

\* if self._verbose: ... if max_batch_size is not None: if use_projection_scheme: raise
BatchSizeCheckRaises(isVerbose, max_batch, use_projection) ==
    isVerbose /\ ~IsNone(max_batch) /\ use_projection

\* The same chain at the top of OverlapMagneticTomographicReconstruction.reconstruct
TomographyResolveMethod(method, param) ==
    IF method = "generalized-projection"
    THEN IF ~IsTriple(param)
         THEN Raised("ValueError")
         ELSE Resolved(TRUE, Some(param.val), FALSE)
    ELSE IF method = "DM_AP" \/ method = "difference-map_alternating-projections"
    THEN IF param.shape # "scalar" THEN Raised("TypeError")
         ELSE IF param.val[1] < 0 \/ param.val[1] > ParamScale THEN Raised("ValueError")
         ELSE Resolved(TRUE,
                       Some(<<-param.val[1], ParamScale, ParamScale + param.val[1]>>),
                       FALSE)
    ELSE IF method = "RAAR" \/ method = "relaxed-averaged-alternating-reflections"
    THEN IF param.shape # "scalar" THEN Raised("TypeError")
         ELSE IF param.val[1] < 0 \/ param.val[1] > ParamScale THEN Raised("ValueError")
         ELSE Resolved(TRUE,
                       Some(<<ParamScale - 2 * param.val[1], param.val[1], 2 * ParamScale>>),
                       FALSE)
    ELSE IF method = "RRR" \/ method = "relax-reflect-reflect"
    THEN IF param.shape # "scalar" THEN Raised("TypeError")
         ELSE IF param.val[1] < 0 \/ param.val[1] > 2 * ParamScale
         THEN Raised("ValueError")
         ELSE Resolved(TRUE,
                       Some(<<-param.val[1], param.val[1], 2 * ParamScale>>),
                       FALSE)
    ELSE IF method = "SUPERFLIP" \/ method = "charge-flipping"
    THEN Resolved(TRUE, Some(<<0, ParamScale, 2 * ParamScale>>), FALSE)
    ELSE IF method = "GD" \/ method = "gradient-descent"
    THEN Resolved(FALSE, None, TRUE)
    ELSE Raised("ValueError")

\* the same check in the verbose block of the tomography reconstruct
TomographyBatchSizeCheckRaises(isVerbose, max_batch, use_projection) ==
    isVerbose /\ ~IsNone(max_batch) /\ use_projection

\* ------------------------------------------------------ numerical kernels
\* residues are read as balanced integers: v stands for v - NumVal when 2v > NumVal
IsNegative(v) == 2 * v > NumVal
\* xp.abs
Abs(v) == IF IsNegative(v) THEN NumVal - v ELSE v
\* xp.exp(1j * xp.angle(v)): the unit phase factor, +1 for v = 0
Phase(v) == IF IsNegative(v) THEN NumVal - 1 ELSE 1
\* xp.exp(1j * v) and xp.angle(v) on an object residue (angles wrap)
ExpI(v) == Mod(v + 1)
Angle(v) == Mod(2 * v)

\* amplitudes of pattern k (self._amplitudes[k]), measurement data
Amplitude(k) == Mod(k)

\* positions are pairs <<x, y>> in half pixels
\* xp.round on a coordinate given in half pixels, rounding halves to even
Round(p) ==
    IF p % 2 = 0 THEN p \div 2
    ELSE IF ((p - 1) \div 2) % 2 = 0 THEN (p - 1) \div 2 ELSE (p + 1) \div 2
\* positions - xp.round(positions), in half pixels
Fractional(positions) ==
    [k \in DOMAIN positions |->
        <<positions[k][1] - 2 * Round(positions[k][1]),
          positions[k][2] - 2 * Round(positions[k][2])>>]

\* shape of the padded object array
ObjectShape == <<4, 4>>
\* self._extract_vectorized_patch_indices() for a 1x1 region of interest:
\* (round(position) + 0) modulo the object shape
ExtractVectorizedPatchIndices(positions) ==
    [k \in DOMAIN positions |->
        <<Round(positions[k][1]) % ObjectShape[1],
          Round(positions[k][2]) % ObjectShape[2]>>]

\* fft_shift(probe, fractional positions): the probe itself for a zero shift
FftShift(current_probe, fractional) ==
    [k \in DOMAIN fractional |->
        IF fractional[k] = <<0, 0>> THEN current_probe ELSE Mod(2 * current_probe)]

\* _overlap_projection: <<shifted_probes, object_patches, overlap>>
OverlapProjection(current_object, current_probe, type, fractional) ==
    LET shifted == FftShift(current_probe, fractional)
        complex_object == IF type = "potential" THEN ExpI(current_object)
                          ELSE current_object
        patches == [k \in DOMAIN fractional |-> complex_object]
    IN  <<shifted, patches, [k \in DOMAIN fractional |-> Mod(shifted[k] * patches[k])]>>

\* xp.sum(xp.abs(amplitudes - xp.abs(fourier_overlap)) ** 2)
FourierError(amps, overlap) ==
    Mod(SumSeq([k \in DOMAIN overlap |->
                    Abs(Mod(amps[k] - Abs(overlap[k]))) * Abs(Mod(amps[k] - Abs(overlap[k])))]))

\* _gradient_descent_fourier_projection: <<exit_waves, error>>
GradientDescentFourierProjection(amps, overlap) ==
    <<[k \in DOMAIN overlap |-> Mod(amps[k] * Phase(overlap[k]) - overlap[k])],
      FourierError(amps, overlap)>>

\* numpy broadcasting of the leading (pattern) axis of two arrays
Broadcastable(m, n) == m = n \/ m = 1 \/ n = 1
BroadcastLen(m, n) == IF m > n THEN m ELSE n
At(s, k) == IF Len(s) = 1 THEN s[1] ELSE s[k]

\* projection_x = 1 - projection_a - projection_b; projection_y = 1 - projection_c
ProjectionX(abc) == ParamScale - abc[1] - abc[2]
ProjectionY(abc) == ParamScale - abc[3]

\* _projection_sets_fourier_projection: <<exit_waves, error>>; old is the
\* persisted exit-wave array or None, abc the scaled (a, b, c)
ProjectionSetsFourierProjection(amps, overlap, old, abc) ==
    LET projection_x == ProjectionX(abc)
        projection_y == ProjectionY(abc)
        waves == IF IsNone(old) THEN overlap ELSE Get(old)
        n == BroadcastLen(Len(waves), Len(overlap))
        factor == [k \in 1 .. n |->
                      Mod(abc[3] * At(overlap, k) + projection_y * At(waves, k))]
        projected == [k \in 1 .. n |-> Mod(At(amps, k) * Phase(factor[k]))]
    IN  <<[k \in 1 .. n |->
              Mod(projection_x * At(waves, k) + abc[1] * At(overlap, k)
                  + abc[2] * projected[k])],
          FourierError(amps, overlap)>>

\* the object update summed over the patterns of the batch
ObjectUpdate(type, patches, shifted, waves) ==
    IF type = "potential"
    THEN Mod(SumSeq([k \in DOMAIN waves |->
                        Mod(2 * At(patches, k) * At(shifted, k) * waves[k])]))
    ELSE Mod(SumSeq([k \in DOMAIN waves |-> Mod(At(shifted, k) * waves[k])]))
\* xp.sum(xp.conj(object_patches) * exit_waves, axis=0)
ProbeUpdate(patches, waves) ==
    Mod(SumSeq([k \in DOMAIN waves |-> Mod(At(patches, k) * waves[k])]))

\* _gradient_descent_adjoint: <<object, probe>>, the updates added in place
GradientDescentAdjoint(current_object, current_probe, type, patches, shifted, waves, step_size, fix_probe) ==
    <<Mod(current_object + step_size * ObjectUpdate(type, patches, shifted, waves)),
      IF fix_probe THEN current_probe
      ELSE Mod(current_probe + step_size * ProbeUpdate(patches, waves))>>

\* the projection-set adjoint adding its values to the running estimates
ProjectionSetsAdjointAdding(current_object, current_probe, type, patches, shifted, waves, fix_probe) ==
    <<Mod(current_object + ObjectUpdate(type, patches, shifted, waves)),
      IF fix_probe THEN current_probe
      ELSE Mod(current_probe + ProbeUpdate(patches, waves))>>
\* _projection_sets_adjoint: <<object, probe>>, the computed values alone
ProjectionSetsAdjoint(current_object, current_probe, type, patches, shifted, waves, fix_probe) ==
    <<ObjectUpdate(type, patches, shifted, waves),
      IF fix_probe THEN current_probe ELSE ProbeUpdate(patches, waves)>>

\* balanced integer of a residue
Balanced(v) == IF IsNegative(v) THEN v - NumVal ELSE v

\* _position_correction: the batch positions minus the step-scaled update;
\* the update of a pattern is estimated from its overlap and amplitudes
PositionCorrection(positions, overlap, amps, positions_step_size) ==
    [k \in DOMAIN positions |->
        <<positions[k][1]
            - positions_step_size * Balanced(Mod(amps[k] - Abs(At(overlap, k)))),
          positions[k][2]>>]

\* _object_threshold_constraint: amplitude clipped to at most one, phase kept
ObjectThresholdConstraint(current_object) ==
    IF Abs(current_object) > 1 THEN Phase(current_object) ELSE current_object
\* _object_positivity_constraint: negative values clipped to zero
ObjectPositivityConstraint(current_object) ==
    IF IsNegative(current_object) THEN 0 ELSE current_object
\* _probe_center_of_mass_constraint
ProbeCenterOfMassConstraint(current_probe) == Abs(current_probe)
\* _probe_radial_symmetrization_constraint: the radial average of the probe
ProbeRadialSymmetrizationConstraint(current_probe) == current_probe - (current_probe % 2)
\* _positions_center_of_mass_constraint: shift the positions back onto the
\* centre of mass of the initial positions (whole half pixels)
PositionsCenterOfMassConstraint(current_positions, initial) ==
    LET n == Len(current_positions)
        dx == (SumSeq([k \in 1 .. n |-> current_positions[k][1]])
               - SumSeq([k \in 1 .. n |-> initial[k][1]])) \div n
        dy == (SumSeq([k \in 1 .. n |-> current_positions[k][2]])
               - SumSeq([k \in 1 .. n |-> initial[k][2]])) \div n
    IN  [k \in 1 .. n |-> <<current_positions[k][1] - dx, current_positions[k][2] - dy>>]

\* _constraints with the regularisers of the default arguments:
\* <<object, probe, positions>>
Constraints(current_object, current_probe, current_positions, type, initial, fix_com, symmetrize_probe, fix_positions, object_positivity) ==
    <<IF type = "complex" THEN ObjectThresholdConstraint(current_object)
      ELSE IF object_positivity THEN ObjectPositivityConstraint(current_object)
      ELSE current_object,
      LET centred == IF fix_com THEN ProbeCenterOfMassConstraint(current_probe)
                     ELSE current_probe
      IN  IF symmetrize_probe THEN ProbeRadialSymmetrizationConstraint(centred)
          ELSE centred,
      IF ~fix_positions
      THEN PositionsCenterOfMassConstraint(current_positions, initial)
      ELSE current_positions>>

\* sizes of the batches of generate_batches(num_items, max_batch=max_batch):
\* ceil(num_items / max_batch) batches, the larger ones first
BatchSizes(num_items, max_batch) ==
    LET num_batches == (num_items + ((-num_items) % max_batch)) \div max_batch
        pp == num_items \div num_batches
        extra == num_items % num_batches
    IN  [i \in 1 .. num_batches |-> IF i <= extra THEN pp + 1 ELSE pp]
\* generate_batches: the <<start, end>> pairs in order
RECURSIVE BatchesFrom(_, _)
BatchesFrom(sizes, start) ==
    IF sizes = <<>> THEN <<>>
    ELSE <<<<start, start + Head(sizes)>>>> \o BatchesFrom(Tail(sizes), start + Head(sizes))
GenerateBatches(num_items, max_batch) == BatchesFrom(BatchSizes(num_items, max_batch), 0)

\* permutations of the pattern indices, as sequences
IndexPermutations == {f \in [Patterns -> Patterns] : \A i, j \in Patterns : f[i] = f[j] => i = j}
\* a[perm], numpy fancy indexing of a by an index array
Index(a, perm) == [k \in DOMAIN perm |-> a[perm[k]]]
\* unshuffled_indices = np.arange(n), the shuffle ignored
NoUnshuffle(shuffled) == [k \in DOMAIN shuffled |-> k]
\* unshuffled_indices[shuffled_indices] = np.arange(n)
Unshuffle(shuffled) == [k \in DOMAIN shuffled |-> CHOOSE i \in DOMAIN shuffled : shuffled[i] = k]

\* ------------------------------------------------------------------- state
VARIABLES
    \* the instance after preprocess()
    verbose,                    \* self._verbose
    object_type_initial,        \* self._object_type_initial
    object_initial,             \* self._object_initial
    probe_initial,              \* self._probe_initial
    positions_px_initial,       \* self._positions_px_initial
    object_type,                \* self._object_type
    object,                     \* self._object
    probe,                      \* self._probe
    positions_px,               \* self._positions_px
    positions_px_fractional,    \* self._positions_px_fractional
    vectorized_patch_indices,   \* self._vectorized_patch_indices_row / _col
    exit_waves,                 \* self._exit_waves: attr "missing", "none" or "array"
    error_iterations,           \* self.error_iterations, None while the attribute is missing
    object_iterations,          \* self.object_iterations, None while the attribute is missing
    probe_iterations,           \* self.probe_iterations, None while the attribute is missing
    published,                  \* self.object, self.probe, None while the attributes are missing
    error_attr,                 \* self.error, None while the attribute is missing
    rng,                        \* state of the np.random generator
    \* the running reconstruct() call
    pc,
    args,                       \* the arguments and the locals set before the main loop
    a0,                         \* iteration index of the main loop
    batches,                    \* the <<start, end>> pairs still to be processed
    shuffled_indices,
    positions_local,            \* the local positions_px of the iteration
    error,                      \* the local error of the iteration
    fwd,                        \* shifted_probes, object_patches, overlap, amplitudes, batch_error
    \* the caller's view
    request,                    \* kind of configuration, reset and seed_random of the call,
                                \* until its first iteration
    calls,                      \* number of reconstruct() calls made
    outcome,                    \* how the last call ended
    warned,                     \* the last call emitted the continuation UserWarning
    completed,                  \* sum of max_iter over the calls that returned since
                                \* the last reset=True call (or preprocess)
    \* the array-level operators applied to one input (SpecArrays)
    trial,
    \* storage
    aliases,                    \* the attributes among "object", "probe", "positions"
                                \* whose array is the storage of its initial copy
    positions_start,            \* self._positions_px when the main loop of the call
                                \* was entered
    \* history
    projection_used             \* a projection-set Fourier projection has run since
                                \* preprocess or the last fresh start

instanceVars == <<verbose, object_type_initial, object_initial, probe_initial,
                  positions_px_initial>>
stateVars == <<object_type, object, probe, positions_px, positions_px_fractional,
               vectorized_patch_indices, exit_waves, error_iterations>>
storeVars == <<object_iterations, probe_iterations, published, error_attr>>
callVars == <<pc, args, a0, batches, shuffled_indices, positions_local, error, fwd>>
callerVars == <<calls, outcome, warned, completed>>
NoRequest == [config |-> "", reset |-> None, seed_random |-> None]
memoryVars == <<aliases, positions_start, projection_used>>
vars == <<instanceVars, stateVars, storeVars, rng, callVars, request, callerVars, trial,
         memoryVars>>

\* self._exit_waves
\* slots is the array, one entry per pattern of the batch that wrote it;
\* patterns names, slot by slot, the pattern whose amplitudes it was written with
MissingWaves == [attr |-> "missing", slots |-> <<>>, patterns |-> <<>>]
NoneWaves == [attr |-> "none", slots |-> <<>>, patterns |-> <<>>]
ArrayWaves(slots, batch) ==
    [attr |-> "array", slots |-> slots,
     patterns |-> [k \in DOMAIN slots |-> At(batch, k)]]
\* the value passed on when self._exit_waves is read
WavesArg(w) == IF w.attr = "array" THEN Some(w.slots) ELSE None

\* the locals of a call that is not running
NoArgs == [max_iter |-> 0, max_batch_size |-> 0,
           store_iterations |-> FALSE, switch_object_iter |-> Inf,
           fix_positions_iter |-> Inf, fix_probe_iter |-> 0, symmetrize_probe_iter |-> 0,
           use_projection_scheme |-> FALSE, projection |-> None, step_size |-> None]
NoFwd == [shifted_probes |-> <<>>, object_patches |-> <<>>, overlap |-> <<>>,
          amplitudes |-> <<>>, batch_error |-> 0]

\* scan positions handed to preprocess(), in half pixels
InitialPositions == [k \in Patterns |-> <<2 * k + 1, 2 * k>>]

\* the np.random generator: its states, the state after seeding, the
\* permutation np.random.shuffle draws in a state, and the state it leaves
RngStates == 0 .. (NumPatterns - 1)
SeedStates(seed_random) == IF IsNone(seed_random) THEN RngStates
                           ELSE {Get(seed_random) % NumPatterns}
ShufflePermutation(r) == [k \in Patterns |-> ((k - 1 + r) % NumPatterns) + 1]
AfterShuffle(r) == (r + 1) % NumPatterns

\* no array-level input
NoTrial == <<>>

\* the instance at the end of a successful preprocess()
Preprocess ==
    /\ verbose \in BOOLEAN
    /\ object_type_initial \in {"potential", "complex"}
    /\ object_initial = (IF object_type_initial = "potential" THEN 0 ELSE 1)
    /\ probe_initial = 1
    /\ positions_px_initial = InitialPositions
    /\ object_type = object_type_initial
    /\ object = object_initial
    /\ probe = probe_initial
    /\ positions_px = positions_px_initial
    /\ positions_px_fractional = Fractional(positions_px_initial)
    /\ vectorized_patch_indices = ExtractVectorizedPatchIndices(positions_px_initial)
    /\ exit_waves = MissingWaves
    /\ error_iterations = None
    /\ object_iterations = None
    /\ probe_iterations = None
    /\ published = None
    /\ error_attr = None
    /\ rng = 0
    /\ aliases = {}
    /\ positions_start = <<>>
    /\ projection_used = FALSE

\* no call has been made
Init ==
    /\ Preprocess
    /\ pc = "idle"
    /\ args = NoArgs
    /\ a0 = 0
    /\ batches = <<>>
    /\ shuffled_indices = Identity
    /\ positions_local = <<>>
    /\ error = 0
    /\ fwd = NoFwd
    /\ request = NoRequest
    /\ calls = 0
    /\ outcome = "none"
    /\ warned = FALSE
    /\ completed = 0
    /\ trial = NoTrial

\* --------------------------------------------------------------- arguments
\* reconstruction parameters of the calls: below every range, the difference-map
\* point 1.0, above every range (scalars); an (a, b, c) triple and a pair (lists)
ScalarParameters == {Scalar(p) : p \in {-1, ParamScale, 2 * ParamScale + 1}}
ListParameters == {List(<<0, ParamScale, 2 * ParamScale>>), List(<<ParamScale, ParamScale>>)}
Parameters == ScalarParameters \cup ListParameters
ResetChoices == {None, Some(TRUE), Some(FALSE)}
\* the optional features of a call; a call turns on at most MaxOptions of them
Options == {"max_batch_size", "store_iterations", "switch_object_iter",
            "fix_positions_iter", "fix_probe_iter"}
OptionSets == {S \in SUBSET Options : Cardinality(S) <= MaxOptions}
SeedChoices == {None, Some(0), Some(1)}
\* step_size and positions_step_size of the model
StepSize == 1

\* `if reset is not None:`
TruthyNotNone(reset) == ~IsNone(reset)
\* `if reset:`
Truthy(reset) == reset = Some(TRUE)

\* what the documentation says of a (method, parameter) pair
ConfigClass(method, param) ==
    IF method \in UnknownNames THEN "unknown method"
    ELSE IF method = "generalized-projection"
    THEN IF IsTriple(param) THEN "valid" ELSE "not a triple"
    ELSE IF method \in {"SUPERFLIP", "charge-flipping", "GD", "gradient-descent"}
    THEN "valid"
    ELSE IF param.shape # "scalar" THEN "not a number"
    ELSE IF param.val[1] < 0 THEN "out of range"
    ELSE IF method \in {"RRR", "relax-reflect-reflect"}
    THEN IF param.val[1] > 2 * ParamScale THEN "out of range" ELSE "valid"
    ELSE IF param.val[1] > ParamScale THEN "out of range" ELSE "valid"

\* the call returns or raises: the locals are dropped
Return(result) ==
    /\ pc' = "idle"
    /\ args' = NoArgs
    /\ a0' = 0
    /\ batches' = <<>>
    /\ shuffled_indices' = Identity
    /\ positions_local' = <<>>
    /\ error' = 0
    /\ fwd' = NoFwd
    /\ outcome' = result

\* hasattr(self, "error_iterations")
HasErrorIterations == ~IsNone(error_iterations)
\* hasattr(self, "error")
HasError == ~IsNone(error_attr)

\* the `if reset:` block without `self._exit_waves = None`
ResetStateKeepingWaves ==
    [error_iterations |-> Some(<<>>),
     object |-> object_initial,
     probe |-> probe_initial,
     positions_px |-> positions_px_initial,
     positions_px_fractional |-> Fractional(positions_px_initial),
     vectorized_patch_indices |-> ExtractVectorizedPatchIndices(positions_px_initial),
     exit_waves |-> exit_waves,
     object_type |-> object_type_initial]
\* the `if reset:` block: the state rebuilt from the copies kept by preprocess()
ResetState ==
    [error_iterations |-> Some(<<>>),
     object |-> object_initial,
     probe |-> probe_initial,
     positions_px |-> positions_px_initial,
     positions_px_fractional |-> Fractional(positions_px_initial),
     vectorized_patch_indices |-> ExtractVectorizedPatchIndices(positions_px_initial),
     exit_waves |-> NoneWaves,
     object_type |-> object_type_initial]

\* the `if reset:` block binding the attributes to the initial copies themselves
ResetAliasesNoCopy == {"object", "probe", "positions"}
\* the `if reset:` block binds the attributes to .copy() of the initial copies:
\* nothing shares their storage
ResetAliases == {}
\* an in-place update of an attribute reaches its initial copy if they share
\* their storage
WriteThrough(name, initial, new) == IF name \in aliases THEN new ELSE initial
\* the attributes bound to new arrays by the adjoint operator: the projection
\* sets bind the object, and the probe unless it is fixed; gradient descent
\* updates both in place
AdjointRebinds(use_projection_scheme, fix_probe) ==
    IF use_projection_scheme
    THEN {"object"} \cup (IF fix_probe THEN {} ELSE {"probe"})
    ELSE {}

\* the initialisation block of reconstruct() (after `# initialization`)
Initialise(reset, store_iterations) ==
    /\ IF store_iterations /\ (IsNone(object_iterations) \/ Truthy(reset))
       THEN object_iterations' = Some(<<>>) /\ probe_iterations' = Some(<<>>)
       ELSE UNCHANGED <<object_iterations, probe_iterations>>
    /\ IF Truthy(reset)
       THEN /\ error_iterations' = ResetState.error_iterations
            /\ object' = ResetState.object
            /\ probe' = ResetState.probe
            /\ positions_px' = ResetState.positions_px
            /\ positions_px_fractional' = ResetState.positions_px_fractional
            /\ vectorized_patch_indices' = ResetState.vectorized_patch_indices
            /\ exit_waves' = ResetState.exit_waves
            /\ object_type' = ResetState.object_type
            /\ warned' = FALSE
            /\ completed' = 0
       ELSE IF IsNone(reset)
       THEN IF HasError
            THEN /\ warned' = TRUE
                 /\ UNCHANGED <<stateVars, completed>>
            ELSE /\ error_iterations' = Some(<<>>)
                 /\ exit_waves' = NoneWaves
                 /\ warned' = FALSE
                 /\ UNCHANGED <<object_type, object, probe, positions_px,
                                positions_px_fractional, vectorized_patch_indices,
                                completed>>
       ELSE /\ warned' = FALSE
            /\ UNCHANGED <<stateVars, completed>>

\* the call raises before its main loop
Reject(exc) ==
    /\ Return(exc)
    /\ warned' = FALSE
    /\ UNCHANGED <<trial, memoryVars, instanceVars, stateVars, storeVars, rng, completed>>

\* reconstruct(...) up to the main loop: method resolution, the verbose
\* block, batching and initialisation
Reconstruct ==
    /\ pc = "idle"
    /\ calls < MaxCalls
    /\ calls' = calls + 1
    /\ \E method \in MethodNames, param \in Parameters, reset \in ResetChoices :
        LET r == ResolveMethod(method, param) IN
        /\ IF r.status # "ok"
           THEN /\ Reject(r.status)
                /\ request' = [config |-> ConfigClass(method, param), reset |-> reset,
                               seed_random |-> None]
           ELSE \E opts \in OptionSets :
                LET max_batch_size == IF "max_batch_size" \in opts THEN Some(1) ELSE None
                IN
                IF BatchSizeCheckRaises(verbose, max_batch_size, r.use_projection_scheme)
                THEN /\ Reject("ValueError")
                     /\ request' = [config |-> ConfigClass(method, param),
                                    reset |-> reset, seed_random |-> None]
                ELSE \E max_iter \in 0 .. MaxIter, seed_random \in SeedChoices,
                        symmetrize_probe_iter \in
                            (IF "fix_probe_iter" \in opts THEN {0, 1} ELSE {0}) :
                     /\ rng' \in (IF IsNone(max_batch_size) THEN {rng}
                                  ELSE SeedStates(seed_random))
                     /\ request' = [config |-> ConfigClass(method, param),
                                    reset |-> reset, seed_random |-> seed_random]
                     /\ Initialise(reset, "store_iterations" \in opts)
                     /\ pc' = "loop"
                     /\ args' = [max_iter |-> max_iter,
                                 max_batch_size |-> IF IsNone(max_batch_size)
                                                    THEN NumPatterns
                                                    ELSE Get(max_batch_size),
                                 store_iterations |-> "store_iterations" \in opts,
                                 switch_object_iter |->
                                     IF "switch_object_iter" \in opts THEN 0 ELSE Inf,
                                 fix_positions_iter |->
                                     IF "fix_positions_iter" \in opts THEN 1 ELSE Inf,
                                 fix_probe_iter |->
                                     IF "fix_probe_iter" \in opts THEN 1 ELSE 0,
                                 symmetrize_probe_iter |-> symmetrize_probe_iter,
                                 use_projection_scheme |-> r.use_projection_scheme,
                                 projection |-> r.projection,
                                 step_size |-> IF r.keep_step_size THEN Some(StepSize)
                                               ELSE None]
                     /\ a0' = 0
                     /\ shuffled_indices' = Identity
                     /\ outcome' = "running"
                     /\ aliases' = IF Truthy(reset) THEN ResetAliases ELSE aliases
                     /\ positions_start' = positions_px'
                     /\ projection_used' = IF Truthy(reset) \/ (IsNone(reset) /\ ~HasError)
                                         THEN FALSE ELSE projection_used
                     /\ UNCHANGED <<trial, instanceVars, published, error_attr, batches,
                                    positions_local, error, fwd>>

\* the batch being processed
Start == Head(batches)[1]
End == Head(batches)[2]
\* amplitudes = self._amplitudes[start:end], the shuffle ignored
BatchAmplitudesInScanOrder(shuffled, start, end) ==
    [k \in 1 .. (end - start) |-> Amplitude(start + k)]
\* amplitudes = self._amplitudes[shuffled_indices[start:end]]
BatchAmplitudes(shuffled, start, end) ==
    [k \in 1 .. (end - start) |-> Amplitude(shuffled[start + k])]

\* the object-type switch at the start of iteration a0: <<object_type, object>>
SwitchObject(iter, switch_object_iter, type, current_object) ==
    IF iter = switch_object_iter
    THEN IF type = "potential" THEN <<"complex", ExpI(current_object)>>
         ELSE <<"potential", Angle(current_object)>>
    ELSE <<type, current_object>>

\* np.random.shuffle(shuffled_indices), for gradient descent only
Shuffled(use_projection_scheme, shuffled, r) ==
    IF ~use_projection_scheme THEN Index(shuffled, ShufflePermutation(r)) ELSE shuffled

\* head of an iteration of the main loop: error = 0.0, the object-type
\* switch, the shuffle, the local positions_px
IterationBegin ==
    /\ pc = "loop"
    /\ a0 < args.max_iter
    /\ LET sw == SwitchObject(a0, args.switch_object_iter, object_type, object)
           sh == Shuffled(args.use_projection_scheme, shuffled_indices, rng)
       IN  /\ object_type' = sw[1]
           /\ object' = sw[2]
           /\ rng' = IF ~args.use_projection_scheme THEN AfterShuffle(rng) ELSE rng
           /\ IF Len(positions_px) < NumPatterns
              THEN \* self._positions_px.copy()[shuffled_indices] on a batch slice
                   Return("IndexError")
              ELSE /\ shuffled_indices' = sh
                   /\ positions_local' = Index(positions_px, sh)
                   /\ batches' = GenerateBatches(NumPatterns, args.max_batch_size)
                   /\ error' = 0
                   /\ pc' = "forward"
                   /\ UNCHANGED <<args, a0, fwd, outcome>>
    /\ request' = NoRequest
    /\ aliases' = IF a0 = args.switch_object_iter THEN aliases \ {"object"} ELSE aliases
    /\ UNCHANGED <<trial, positions_start, projection_used, instanceVars, probe, positions_px,
                   positions_px_fractional,
                   vectorized_patch_indices, exit_waves, error_iterations,
                   storeVars, calls, warned, completed>>

\* self._forward(...): <<shifted_probes, object_patches, overlap, exit_waves, error>>
Forward(current_object, current_probe, type, fractional, amps, waves, use_projection_scheme, abc) ==
    LET ov == OverlapProjection(current_object, current_probe, type, fractional)
        fp == IF use_projection_scheme
              THEN ProjectionSetsFourierProjection(amps, ov[3], waves, Get(abc))
              ELSE GradientDescentFourierProjection(amps, ov[3])
    IN  <<ov[1], ov[2], ov[3], fp[1], fp[2]>>

\* a batch, up to the forward operator: the batch positions and their
\* derived data, the batch amplitudes, self._forward
BatchForward ==
    /\ pc = "forward"
    /\ LET pos == Slice(positions_local, Start, End)
           frac == Fractional(pos)
           amps == BatchAmplitudes(shuffled_indices, Start, End)
       IN  /\ positions_px' = pos
           /\ positions_px_fractional' = frac
           /\ vectorized_patch_indices' = ExtractVectorizedPatchIndices(pos)
           /\ IF exit_waves.attr = "missing"
              THEN /\ Return("AttributeError")
                   /\ UNCHANGED exit_waves
              ELSE IF /\ args.use_projection_scheme
                      /\ exit_waves.attr = "array"
                      /\ ~Broadcastable(Len(exit_waves.slots), Len(pos))
              THEN /\ Return("ValueError")
                   /\ UNCHANGED exit_waves
              ELSE LET f == Forward(object, probe, object_type, frac, amps,
                                    WavesArg(exit_waves), args.use_projection_scheme,
                                    args.projection)
                   IN  /\ exit_waves' = ArrayWaves(f[4], Slice(shuffled_indices, Start, End))
                       /\ fwd' = [shifted_probes |-> f[1], object_patches |-> f[2],
                                  overlap |-> f[3], amplitudes |-> amps,
                                  batch_error |-> f[5]]
                       /\ pc' = "adjoint"
                       /\ UNCHANGED <<args, a0, batches, shuffled_indices,
                                      positions_local, error, outcome>>
    /\ aliases' = aliases \ {"positions"}
    /\ projection_used' = (projection_used \/ (args.use_projection_scheme /\ pc' = "adjoint"))
    /\ UNCHANGED <<trial, positions_start, instanceVars, object_type, object, probe,
                   error_iterations,
                   storeVars, rng, request, calls, warned, completed>>

\* self._adjoint(...): <<object, probe>>
Adjoint(current_object, current_probe, type, patches, shifted, waves, use_projection_scheme, step_size, fix_probe) ==
    IF use_projection_scheme
    THEN ProjectionSetsAdjoint(current_object, current_probe, type, patches, shifted,
                               waves, fix_probe)
    ELSE GradientDescentAdjoint(current_object, current_probe, type, patches, shifted,
                                waves, Get(step_size), fix_probe)

\* the batch is done and the constraints follow, whatever batches remain
BatchDoneThenConstraints ==
    /\ error' = Mod(error + fwd.batch_error)
    /\ batches' = Tail(batches)
    /\ pc' = "constraints"
    /\ UNCHANGED <<args, a0, shuffled_indices, fwd, outcome>>
\* the batch is done: error += batch_error, next batch or the constraints
BatchDone ==
    /\ error' = Mod(error + fwd.batch_error)
    /\ batches' = Tail(batches)
    /\ pc' = IF Tail(batches) = <<>> THEN "constraints" ELSE "forward"
    /\ UNCHANGED <<args, a0, shuffled_indices, fwd, outcome>>

\* the adjoint operator of a batch
BatchAdjoint ==
    /\ pc = "adjoint"
    /\ IF Len(exit_waves.slots) # Len(fwd.shifted_probes)
       THEN \* the scattered sum gets more weights than patch indices
            /\ Return("ValueError")
            /\ UNCHANGED <<object, probe, object_initial, probe_initial, aliases>>
       ELSE /\ LET u == Adjoint(object, probe, object_type, fwd.object_patches,
                                fwd.shifted_probes, exit_waves.slots,
                                args.use_projection_scheme, args.step_size,
                                a0 < args.fix_probe_iter)
                   rebound == AdjointRebinds(args.use_projection_scheme,
                                             a0 < args.fix_probe_iter)
               IN  /\ object' = u[1]
                   /\ probe' = u[2]
                   /\ object_initial' = IF "object" \in rebound THEN object_initial
                                        ELSE WriteThrough("object", object_initial, u[1])
                   /\ probe_initial' = IF "probe" \in rebound THEN probe_initial
                                       ELSE WriteThrough("probe", probe_initial, u[2])
                   /\ aliases' = aliases \ rebound
            /\ UNCHANGED positions_local
            /\ IF a0 >= args.fix_positions_iter
               THEN /\ pc' = "position"
                    /\ UNCHANGED <<args, a0, batches, shuffled_indices, error, fwd, outcome>>
               ELSE BatchDone
    /\ UNCHANGED <<trial, positions_start, projection_used, verbose, object_type_initial,
                   positions_px_initial, object_type, positions_px, positions_px_fractional,
                   vectorized_patch_indices, exit_waves, error_iterations, storeVars,
                   rng, request, calls, warned, completed>>

\* positions_px[start:end] = self._position_correction(...); self._positions_px
\* is a view of positions_px[start:end] and is updated in place
BatchPositionCorrection ==
    /\ pc = "position"
    /\ LET new == PositionCorrection(positions_px, fwd.overlap, fwd.amplitudes, StepSize)
       IN  /\ positions_px' = new
           /\ positions_local' = [k \in DOMAIN positions_local |->
                                     IF k > Start /\ k <= End THEN new[k - Start]
                                     ELSE positions_local[k]]
    /\ BatchDone
    /\ UNCHANGED <<trial, memoryVars, instanceVars, object_type, object, probe, positions_px_fractional,
                   vectorized_patch_indices, exit_waves, error_iterations, storeVars,
                   rng, request, calls, warned, completed>>

\* self.error_iterations = [error.item()]
ReplaceError(history, err) == <<err>>
\* self.error_iterations.append(error.item())
AppendError(history, err) == Append(history, err)

\* tail of an iteration: positions back in pattern order, the constraint
\* chain, the error history and the snapshots
IterationEnd ==
    /\ pc = "constraints"
    /\ LET c == Constraints(object, probe,
                            Index(positions_local, Unshuffle(shuffled_indices)),
                            object_type, positions_px_initial,
                            a0 >= args.fix_probe_iter, a0 < args.symmetrize_probe_iter,
                            a0 < args.fix_positions_iter, TRUE)
       IN  /\ object' = c[1]
           /\ probe' = c[2]
           /\ positions_px' = c[3]
           /\ error_iterations' = Some(AppendError(Get(error_iterations), error))
           /\ IF args.store_iterations
              THEN /\ object_iterations' = Some(Append(Get(object_iterations), c[1]))
                   /\ probe_iterations' = Some(Append(Get(probe_iterations), c[2]))
              ELSE UNCHANGED <<object_iterations, probe_iterations>>
    /\ a0' = a0 + 1
    /\ pc' = "loop"
    /\ aliases' = aliases \ ({"object", "positions"}
                              \cup (IF a0 >= args.fix_probe_iter \/ a0 < args.symmetrize_probe_iter
                                    THEN {"probe"} ELSE {}))
    /\ UNCHANGED <<trial, positions_start, projection_used, instanceVars, object_type, positions_px_fractional,
                   vectorized_patch_indices, exit_waves, published, error_attr, rng,
                   args, batches, shuffled_indices, positions_local, error, fwd,
                   request, callerVars>>

\* after the main loop: self.object, self.probe, self.error; error is
\* unbound when the loop body never ran
StoreResult ==
    /\ pc = "loop"
    /\ a0 >= args.max_iter
    /\ published' = Some(<<object, probe>>)
    /\ IF args.max_iter = 0
       THEN /\ Return("UnboundLocalError")
            /\ UNCHANGED <<error_attr, completed>>
       ELSE /\ Return("ok")
            /\ error_attr' = Some(error)
            /\ completed' = completed + args.max_iter
    /\ request' = NoRequest
    /\ positions_start' = <<>>
    /\ UNCHANGED <<trial, aliases, projection_used, instanceVars, stateVars,
                   object_iterations,
                   probe_iterations, rng,
                   calls, warned>>

Next ==
    \/ Reconstruct
    \/ IterationBegin
    \/ BatchForward
    \/ BatchAdjoint
    \/ BatchPositionCorrection
    \/ IterationEnd
    \/ StoreResult

Spec == Init /\ [][Next]_vars

\* ----------------------------------- the method resolution as a function
\* reconstruct() of either class from its entry to the end of the verbose
\* block, applied to one (method, parameter, max_batch_size) each
Variants == {"singleslice", "tomography"}
ResolveScalars == {Scalar(p) : p \in -1 .. (2 * ParamScale + 1)}
ResolveLists == ListParameters \cup {List(<<-1, 0, 2 * ParamScale + 1>>)}
MaxBatchChoices == {None, Some(1)}

InitResolve ==
    /\ Preprocess
    /\ pc = "resolve"
    /\ args = NoArgs
    /\ a0 = 0
    /\ batches = <<>>
    /\ shuffled_indices = Identity
    /\ positions_local = <<>>
    /\ error = 0
    /\ fwd = NoFwd
    /\ request \in [variant : Variants, method : MethodNames,
                    param : ResolveScalars \cup ResolveLists,
                    max_batch_size : MaxBatchChoices]
    /\ calls = 0
    /\ outcome = "none"
    /\ warned = FALSE
    /\ completed = 0
    /\ trial = NoTrial

\* the locals the resolution leaves, and how the block ends
ResolveCall ==
    /\ pc = "resolve"
    /\ LET tomography == request.variant = "tomography"
           r == IF tomography THEN TomographyResolveMethod(request.method, request.param)
                ELSE ResolveMethod(request.method, request.param)
           raises == IF tomography
                     THEN TomographyBatchSizeCheckRaises(verbose, request.max_batch_size,
                                                         r.use_projection_scheme)
                     ELSE BatchSizeCheckRaises(verbose, request.max_batch_size,
                                               r.use_projection_scheme)
       IN  /\ args' = [NoArgs EXCEPT !.use_projection_scheme = r.use_projection_scheme,
                                     !.projection = r.projection,
                                     !.step_size = IF r.keep_step_size THEN Some(StepSize)
                                                   ELSE None]
           /\ outcome' = IF r.status # "ok" THEN r.status
                         ELSE IF raises THEN "ValueError" ELSE "ok"
    /\ pc' = "resolved"
    /\ calls' = calls + 1
    /\ UNCHANGED <<trial, memoryVars, instanceVars, stateVars, storeVars, rng, a0, batches,
                   shuffled_indices, positions_local, error, fwd, request, warned,
                   completed>>

SpecResolve == InitResolve /\ [][ResolveCall]_vars

\* ------------------------------------------------- array-level operators
\* The overlap operator and the position correction on arrays: the object is
\* an ObjectShape array obj[row][col] (rows and columns counted from 0), the
\* region of interest is RoiSize x RoiSize, and the patch indices of a pattern
\* are the rows and the columns of its window.
Pixels == 1 .. RoiSize
\* xp.fft.fftfreq(n, d = 1 / n): 0, 1, ..., then the negative offsets
FftFreq(n) == [i \in 1 .. n |-> IF i - 1 < (n + 1) \div 2 THEN i - 1 ELSE i - 1 - n]
\* self._extract_vectorized_patch_indices(): (round(position) + offset) modulo
\* the object shape, along one axis
VectorizedPatchIndices(positions, axis) ==
    [k \in DOMAIN positions |->
        [i \in Pixels |-> (Round(positions[k][axis]) + FftFreq(RoiSize)[i]) % ObjectShape[axis]]]
\* the patch indices moved by one pixel without the modulo
RolledIndicesUnwrapped(indices, extent) ==
    [k \in DOMAIN indices |-> [i \in Pixels |-> indices[k][i] + 1]]
\* (self._vectorized_patch_indices_row + 1) % self._object_shape[0], and the
\* same for the columns
RolledIndices(indices, extent) ==
    [k \in DOMAIN indices |-> [i \in Pixels |-> (indices[k][i] + 1) % extent]]
\* the object read as it is, whatever its type
ComplexObjectRaw(obj, type) == obj
\* complex_object = xp.exp(1j * current_object) for a potential object
ComplexObject(obj, type) ==
    IF type = "potential"
    THEN [r \in DOMAIN obj |-> [c \in DOMAIN obj[r] |-> ExpI(obj[r][c])]]
    ELSE obj
\* fft_shift of a probe array: the probe itself for a zero shift
FftShiftArray(current_probe, fractional) ==
    [k \in DOMAIN fractional |->
        [i \in Pixels |-> [j \in Pixels |->
            IF fractional[k] = <<0, 0>> THEN current_probe[i][j]
            ELSE Mod(2 * current_probe[i][j])]]]
\* _overlap_projection on arrays: <<shifted_probes, object_patches, overlap>>
OverlapProjectionArray(obj, current_probe, type, fractional, rows, cols) ==
    LET shifted == FftShiftArray(current_probe, fractional)
        complex_object == ComplexObject(obj, type)
        patches == [k \in DOMAIN fractional |->
                       [i \in Pixels |-> [j \in Pixels |->
                           complex_object[rows[k][i]][cols[k][j]]]]]
    IN  <<shifted, patches,
          [k \in DOMAIN fractional |->
              [i \in Pixels |-> [j \in Pixels |-> Mod(shifted[k][i][j] * patches[k][i][j])]]]>>

\* xp.max and xp.min of a one-dimensional array
SeqMax(q) == CHOOSE m \in {q[i] : i \in DOMAIN q} : \A i \in DOMAIN q : q[i] <= m
SeqMin(q) == CHOOSE m \in {q[i] : i \in DOMAIN q} : \A i \in DOMAIN q : q[i] >= m
\* cosine and sine of an angle of q quarter turns
Cos(q) == CASE q % 4 = 0 -> 1 [] q % 4 = 1 -> 0 [] q % 4 = 2 -> -1 [] OTHER -> 0
Sin(q) == CASE q % 4 = 0 -> 0 [] q % 4 = 1 -> 1 [] q % 4 = 2 -> 0 [] OTHER -> -1
\* the frame of the drift test: x and y exchanged if the patterns are
\* transposed, then turned by -rotation_angle (q quarter turns)
DriftFrame(points, transpose, q) ==
    LET t == [k \in DOMAIN points |->
                 IF transpose THEN <<points[k][2], points[k][1]>> ELSE points[k]]
    IN  [k \in DOMAIN points |->
            <<t[k][1] * Cos(-q) + t[k][2] * Sin(-q),
              (-t[k][1]) * Sin(-q) + t[k][2] * Cos(-q)>>]
\* outlier_ind: the candidate lies more than the distance outside the extent
\* of the initial positions, along x or along y
OutlierInd(candidates, initial, distance, transpose, q) ==
    LET p0 == DriftFrame(initial, transpose, q)
        p1 == DriftFrame(candidates, transpose, q)
        x0 == [k \in DOMAIN p0 |-> p0[k][1]]
        y0 == [k \in DOMAIN p0 |-> p0[k][2]]
    IN  [k \in DOMAIN p1 |->
            \/ p1[k][1] > SeqMax(x0) + distance
            \/ p1[k][1] < SeqMin(x0) - distance
            \/ p1[k][2] > SeqMax(y0) + distance
            \/ p1[k][2] < SeqMin(y0) - distance]
\* the update of the whole batch set to zero as soon as one pattern is out
ConstrainedUpdateWholeBatch(positions_update, outlier_ind) ==
    [k \in DOMAIN positions_update |->
        IF \E j \in DOMAIN outlier_ind : outlier_ind[j] THEN <<0, 0>>
        ELSE positions_update[k]]
\* positions_update[..., 0][outlier_ind] = 0
ConstrainedUpdate(positions_update, outlier_ind) ==
    [k \in DOMAIN positions_update |->
        IF outlier_ind[k] THEN <<0, 0>> ELSE positions_update[k]]
\* current_positions - positions_step_size * positions_update[..., 0]
Candidates(current_positions, positions_update, positions_step_size) ==
    [k \in DOMAIN current_positions |->
        <<current_positions[k][1] - positions_step_size * positions_update[k][1],
          current_positions[k][2] - positions_step_size * positions_update[k][2]>>]
\* the tail of _position_correction of the tomography class: the drift
\* constraint and the update of the positions; positions_update is the
\* least-squares estimate, constrain_position_distance is in position units
TomographyPositionCorrection(current_positions, positions_update, positions_step_size, constrain_position_distance, initial, transpose, q) ==
    LET update ==
            IF IsNone(constrain_position_distance) THEN positions_update
            ELSE ConstrainedUpdate(
                     positions_update,
                     OutlierInd(Candidates(current_positions, positions_update,
                                           positions_step_size),
                                initial, Get(constrain_position_distance), transpose, q))
    IN  Candidates(current_positions, update, positions_step_size)

\* the inputs of SpecArrays
\* positions inside the object, at its lower edge and past its upper edge
TrialPositions == [Patterns -> {<<3, 2>>, <<-1, 2 * ObjectShape[2] - 1>>, <<2 * ObjectShape[1], 0>>}]
TrialUpdates == [Patterns -> {<<0, 0>>, <<2, 0>>, <<-4, 2>>}]
TrialDistances == {None, Some(0), Some(1), Some(3)}
TrialRotations == {0, 1}
\* a potential object identically 0, a complex object identically 1, a ramp
TrialObjects ==
    {[type |-> "potential",
      array |-> [r \in 0 .. (ObjectShape[1] - 1) |-> [c \in 0 .. (ObjectShape[2] - 1) |-> 0]]],
     [type |-> "complex",
      array |-> [r \in 0 .. (ObjectShape[1] - 1) |-> [c \in 0 .. (ObjectShape[2] - 1) |-> 1]]],
     [type |-> "complex",
      array |-> [r \in 0 .. (ObjectShape[1] - 1) |->
                    [c \in 0 .. (ObjectShape[2] - 1) |-> Mod(r + 2 * c)]]]}
TrialProbe == [i \in Pixels |-> [j \in Pixels |-> 1 + ((i + j) % 2)]]

InitArrays ==
    /\ Preprocess
    /\ pc = "overlap"
    /\ args = NoArgs
    /\ a0 = 0
    /\ batches = <<>>
    /\ shuffled_indices = Identity
    /\ positions_local = <<>>
    /\ error = 0
    /\ fwd = NoFwd
    /\ request = NoRequest
    /\ calls = 0
    /\ outcome = "none"
    /\ warned = FALSE
    /\ completed = 0
    /\ \E positions \in TrialPositions, update \in TrialUpdates,
          distance \in TrialDistances, transpose \in BOOLEAN,
          rotation \in TrialRotations, obj \in TrialObjects :
            trial = [positions |-> positions, update |-> update, distance |-> distance,
                     transpose |-> transpose, rotation |-> rotation, object |-> obj,
                     rows |-> <<>>, cols |-> <<>>, shifted_probes |-> <<>>,
                     object_patches |-> <<>>, overlap |-> <<>>,
                     rolled_rows |-> <<>>, rolled_cols |-> <<>>, result |-> <<>>,
                     adjoint |-> <<>>]

\* the patch indices of the positions, then the overlap operator
OverlapArrays ==
    /\ pc = "overlap"
    /\ LET rows == VectorizedPatchIndices(trial.positions, 1)
           cols == VectorizedPatchIndices(trial.positions, 2)
           ov == OverlapProjectionArray(trial.object.array, TrialProbe, trial.object.type,
                                        Fractional(trial.positions), rows, cols)
       IN  trial' = [trial EXCEPT !.rows = rows, !.cols = cols,
                                  !.shifted_probes = ov[1], !.object_patches = ov[2],
                                  !.overlap = ov[3]]
    /\ pc' = "position"
    /\ UNCHANGED <<memoryVars, instanceVars, stateVars, storeVars, rng, args, a0, batches,
                   shuffled_indices, positions_local, error, fwd, request, callerVars>>

\* the position correction: the indices of the perturbed patches, then the
\* constrained update
PositionCorrectionArrays ==
    /\ pc = "position"
    /\ trial' = [trial EXCEPT
                    !.rolled_rows = RolledIndices(trial.rows, ObjectShape[1]),
                    !.rolled_cols = RolledIndices(trial.cols, ObjectShape[2]),
                    !.result = TomographyPositionCorrection(
                                   trial.positions, trial.update, StepSize, trial.distance,
                                   positions_px_initial, trial.transpose, trial.rotation)]
    /\ pc' = "corrected"
    /\ UNCHANGED <<memoryVars, instanceVars, stateVars, storeVars, rng, args, a0, batches,
                   shuffled_indices, positions_local, error, fwd, request, callerVars>>

\* exit_waves_copy *= xp.conj(obj) with exit_waves_copy bound to the exit
\* waves themselves: <<exit_waves, exit_waves_copy>> after the statement
TomographyBackTransmitInPlace(waves, obj) ==
    LET product == [k \in DOMAIN waves |->
                       [i \in Pixels |-> [j \in Pixels |-> Mod(waves[k][i][j] * obj[k][i][j])]]]
    IN  <<product, product>>
\* exit_waves_copy = exit_waves.copy(); exit_waves_copy *= xp.conj(obj):
\* <<exit_waves, exit_waves_copy>> after the two statements
TomographyBackTransmit(waves, obj) ==
    <<waves,
      [k \in DOMAIN waves |->
          [i \in Pixels |-> [j \in Pixels |-> Mod(waves[k][i][j] * obj[k][i][j])]]]>>
\* what _projection_sets_adjoint of the tomography class leaves in the arrays
\* passed to it, for one slice: the patches and the probes are only read
TomographyProjectionSetsAdjointInputs(object_patches, propagated_probes, waves) ==
    LET bt == TomographyBackTransmit(waves, object_patches)
    IN  [object_patches |-> object_patches, propagated_probes |-> propagated_probes,
         exit_waves |-> bt[1], exit_waves_copy |-> bt[2]]

\* the adjoint operator of the projection sets, on the patches and probes of
\* the overlap operator and with its overlap as exit waves
AdjointArrays ==
    /\ pc = "corrected"
    /\ trial' = [trial EXCEPT !.adjoint = TomographyProjectionSetsAdjointInputs(
                                              trial.object_patches, trial.shifted_probes,
                                              trial.overlap)]
    /\ pc' = "done"
    /\ UNCHANGED <<memoryVars, instanceVars, stateVars, storeVars, rng, args, a0, batches,
                   shuffled_indices, positions_local, error, fwd, request, callerVars>>

NextArrays ==
    \/ OverlapArrays
    \/ PositionCorrectionArrays
    \/ AdjointArrays

SpecArrays == InitArrays /\ [][NextArrays]_vars

\* ------------------------------------------------ probe initialisation
\* The probe initialisation of preprocess, on shapes: the initial guess is
\* None, a ComplexProbe with grid points gpts (built already or not), or a raw
\* array; self._region_of_interest_shape is a numpy array of two extents.
Extents == {RoiSize, RoiSize + 1}
Shapes == {<<x, y>> : x \in Extents, y \in Extents}
ProbeGuesses ==
    {[kind |-> "none", shape |-> <<>>, built |-> FALSE]}
        \cup {[kind |-> "ComplexProbe", shape |-> sh, built |-> b] : sh \in Shapes, b \in BOOLEAN}
        \cup {[kind |-> "array", shape |-> sh, built |-> TRUE] : sh \in Shapes}
\* a != b of a sequence and a numpy array of the same length: elementwise
NotEqual(a, b) == [i \in DOMAIN b |-> a[i] # b[i]]
\* the truth value of a numpy array in an if statement: that of its element if
\* it has one, ValueError (ambiguous) if it has more
TruthValue(array) ==
    IF Len(array) = 1 THEN IF array[1] THEN "True" ELSE "False" ELSE "ValueError"
\* self._sum_overlapping_patches_bincounts(probe_intensities): one weight for
\* each flattened patch index, so the patches must have the shape of the
\* region of interest
SumOverlappingPatchesBincounts(patch_shape, roi_shape) ==
    IF patch_shape = roi_shape THEN "ok" ELSE "ValueError"
\* the probe initialisation and the probe overlap of preprocess:
\* <<outcome, shape of self._probe>>
ProbeInitialization(guess, roi_shape) ==
    IF guess.kind = "none" THEN <<"ok", roi_shape>>
    ELSE IF guess.kind = "ComplexProbe"
    THEN LET test == TruthValue(NotEqual(guess.shape, roi_shape))
         IN  IF test = "False" THEN <<"ok", guess.shape>> ELSE <<"ValueError", <<>>>>
    ELSE <<SumOverlappingPatchesBincounts(guess.shape, roi_shape), guess.shape>>

InitPreprocess ==
    /\ Preprocess
    /\ pc = "preprocess"
    /\ args = NoArgs
    /\ a0 = 0
    /\ batches = <<>>
    /\ shuffled_indices = Identity
    /\ positions_local = <<>>
    /\ error = 0
    /\ fwd = NoFwd
    /\ request = NoRequest
    /\ calls = 0
    /\ outcome = "none"
    /\ warned = FALSE
    /\ completed = 0
    /\ \E guess \in ProbeGuesses, roi \in Shapes :
          trial = [guess |-> guess, roi_shape |-> roi, probe_shape |-> <<>>,
                   preprocessed |-> FALSE]

\* preprocess, as far as the probe is concerned
PreprocessProbe ==
    /\ pc = "preprocess"
    /\ LET r == ProbeInitialization(trial.guess, trial.roi_shape)
       IN  /\ outcome' = r[1]
           /\ trial' = [trial EXCEPT !.probe_shape = IF r[1] = "ok" THEN r[2] ELSE <<>>,
                                     !.preprocessed = (r[1] = "ok")]
    /\ pc' = "idle"
    /\ UNCHANGED <<memoryVars, instanceVars, stateVars, storeVars, rng, args, a0, batches,
                   shuffled_indices, positions_local, error, fwd, request, calls,
                   warned, completed>>

SpecPreprocess == InitPreprocess /\ [][PreprocessProbe]_vars

\* ---------------------------------------------------- the constraint chain
\* _constraints with every gate as an input.  The regularizers are methods of
\* the base class; an array is represented by the sequence of the regularizers
\* applied to it so far, so that two orders of application give two results.
ChainGates == {"gaussian_filter", "butterworth_filter", "shrinkage", "object_positivity", "fix_com", "probe_gaussian_filter", "symmetrize_probe", "fix_probe_amplitude", "fix_probe_fourier_amplitude", "fix_positions", "global_affine_transformation"}
\* the two probe amplitude constraints as two independent if statements
ProbeAmplitudeStageBoth(current_probe, gates) ==
    LET p == IF "fix_probe_amplitude" \in gates
             THEN Append(current_probe, "_probe_amplitude_constraint") ELSE current_probe
    IN  IF "fix_probe_fourier_amplitude" \in gates
        THEN Append(p, "_probe_fourier_amplitude_constraint") ELSE p
\* if fix_probe_amplitude: ... elif fix_probe_fourier_amplitude: ...
ProbeAmplitudeStage(current_probe, gates) ==
    IF "fix_probe_amplitude" \in gates
    THEN Append(current_probe, "_probe_amplitude_constraint")
    ELSE IF "fix_probe_fourier_amplitude" \in gates
    THEN Append(current_probe, "_probe_fourier_amplitude_constraint")
    ELSE current_probe
\* the object part of _constraints
ObjectStages(current_object, type, gates) ==
    LET o1 == IF "gaussian_filter" \in gates
              THEN Append(current_object, "_object_gaussian_constraint") ELSE current_object
        o2 == IF "butterworth_filter" \in gates
              THEN Append(o1, "_object_butterworth_constraint") ELSE o1
        o3 == IF "shrinkage" \in gates
              THEN Append(o2, "_object_shrinkage_constraint") ELSE o2
    IN  IF type = "complex" THEN Append(o3, "_object_threshold_constraint")
        ELSE IF "object_positivity" \in gates
        THEN Append(o3, "_object_positivity_constraint") ELSE o3
\* the probe part of _constraints
ProbeStages(current_probe, gates) ==
    LET p1 == IF "fix_com" \in gates
              THEN Append(current_probe, "_probe_center_of_mass_constraint")
              ELSE current_probe
        p2 == IF "probe_gaussian_filter" \in gates
              THEN Append(p1, "_probe_residual_aberration_filtering_constraint") ELSE p1
        p3 == IF "symmetrize_probe" \in gates
              THEN Append(p2, "_probe_radial_symmetrization_constraint") ELSE p2
    IN  ProbeAmplitudeStage(p3, gates)
\* the positions part of _constraints
PositionStages(current_positions, gates) ==
    IF "fix_positions" \notin gates
    THEN LET x == Append(current_positions, "_positions_center_of_mass_constraint")
         IN  IF "global_affine_transformation" \in gates
             THEN Append(x, "_positions_affine_transformation_constraint") ELSE x
    ELSE current_positions
\* _constraints: <<object, probe, positions>>
ConstraintChain(current_object, current_probe, current_positions, type, gates) ==
    <<ObjectStages(current_object, type, gates), ProbeStages(current_probe, gates),
      PositionStages(current_positions, gates)>>

InitConstraints ==
    /\ Preprocess
    /\ pc = "chain"
    /\ args = NoArgs
    /\ a0 = 0
    /\ batches = <<>>
    /\ shuffled_indices = Identity
    /\ positions_local = <<>>
    /\ error = 0
    /\ fwd = NoFwd
    /\ request = NoRequest
    /\ calls = 0
    /\ outcome = "none"
    /\ warned = FALSE
    /\ completed = 0
    /\ \E gates \in SUBSET ChainGates :
          trial = [gates |-> gates, chain |-> <<>>]

\* one call of _constraints on the current estimates
ApplyConstraints ==
    /\ pc = "chain"
    /\ trial' = [trial EXCEPT !.chain = ConstraintChain(<<>>, <<>>, <<>>, object_type,
                                                        trial.gates)]
    /\ pc' = "chained"
    /\ UNCHANGED <<memoryVars, instanceVars, stateVars, storeVars, rng, args, a0, batches,
                   shuffled_indices, positions_local, error, fwd, request, callerVars>>

SpecConstraints == InitConstraints /\ [][ApplyConstraints]_vars

\* ------------------------------------------------- tomography reconstruct
\* OverlapMagneticTomographicReconstruction.reconstruct on the scan positions
\* of its tilts.  trial is the part of the instance the single-slice class
\* does not have: positions_px_all and positions_px_initial_all
\* (self._positions_px_all, self._positions_px_initial_all, NumPatterns
\* positions for each tilt), tilt_indices (the tilts of the iteration still
\* to be visited) and collective_tilt_updates.  The object and probe
\* arithmetic is left out; the least-squares estimate of the position update
\* is any of TrialUpdates.  request keeps, of the arguments of a call, how
\* the checks before the position-correction check end (earlier_checks) and
\* fix_positions_iter and max_iter.
NumTilts == 2
Tilts == 1 .. NumTilts
TomographyInitialPositions == [k \in 1 .. (NumTilts * NumPatterns) |-> <<2 * k + 1, 2 * k>>]
\* np.random.shuffle(tilt_indices) on np.arange(self._num_tilts)
TiltPermutation(r) == [t \in Tilts |-> ((t - 1 + r) % NumTilts) + 1]
\* fix_positions_iter of a call
FixPositionsIterChoices == {0, 1, MaxIter, Inf}
\* no call is rejected for its fix_positions_iter
NeverRejectsPositionCorrection(fix_positions_iter, max_iter) == FALSE
\* if fix_positions_iter < max_iter: raise NotImplementedError
RejectsPositionCorrection(fix_positions_iter, max_iter) == fix_positions_iter < max_iter
\* a[start:start + len(seg)] = seg
Splice(a, start, seg) ==
    [k \in DOMAIN a |-> IF k > start /\ k <= start + Len(seg) THEN seg[k - start] ELSE a[k]]

InitTomography ==
    /\ Preprocess
    /\ pc = "idle"
    /\ args = NoArgs
    /\ a0 = 0
    /\ batches = <<>>
    /\ shuffled_indices = Identity
    /\ positions_local = <<>>
    /\ error = 0
    /\ fwd = NoFwd
    /\ request = NoRequest
    /\ calls = 0
    /\ outcome = "none"
    /\ warned = FALSE
    /\ completed = 0
    /\ trial = [positions_px_all |-> TomographyInitialPositions,
                positions_px_initial_all |-> TomographyInitialPositions,
                tilt_indices |-> <<>>, collective_tilt_updates |-> FALSE]

\* reconstruct(...) up to the main loop: method resolution, the verbose
\* block, the position-correction check, seeding and initialisation
TomographyReconstruct ==
    /\ pc = "idle"
    /\ calls < MaxCalls
    /\ calls' = calls + 1
    /\ \E method \in MethodNames, param \in Parameters, reset \in ResetChoices,
          max_batch_size \in MaxBatchChoices, max_iter \in 0 .. MaxIter,
          fix_positions_iter \in FixPositionsIterChoices, collective \in BOOLEAN :
        LET r == TomographyResolveMethod(method, param)
            earlier == IF r.status # "ok" THEN r.status
                       ELSE IF TomographyBatchSizeCheckRaises(verbose, max_batch_size,
                                                              r.use_projection_scheme)
                       THEN "ValueError"
                       ELSE "ok"
            exc == IF earlier # "ok" THEN earlier
                   ELSE IF RejectsPositionCorrection(fix_positions_iter, max_iter)
                   THEN "NotImplementedError"
                   ELSE "ok"
        IN
        /\ request' = [config |-> "", reset |-> None, seed_random |-> None,
                       earlier_checks |-> earlier,
                       fix_positions_iter |-> fix_positions_iter, max_iter |-> max_iter]
        /\ IF exc # "ok"
           THEN Reject(exc)
           ELSE /\ rng' \in (IF IsNone(max_batch_size) THEN {rng}
                             ELSE UNION {SeedStates(seed_random) :
                                            seed_random \in SeedChoices})
                /\ IF Truthy(reset)
                   THEN /\ object' = object_initial
                        /\ error_iterations' = Some(<<>>)
                        /\ probe' = probe_initial
                        /\ trial' = [trial EXCEPT
                                        !.positions_px_all = trial.positions_px_initial_all,
                                        !.tilt_indices = <<>>,
                                        !.collective_tilt_updates = collective]
                        /\ exit_waves' = NoneWaves
                        /\ warned' = FALSE
                   ELSE /\ trial' = [trial EXCEPT !.tilt_indices = <<>>,
                                                  !.collective_tilt_updates = collective]
                        /\ IF IsNone(reset) /\ ~HasError
                           THEN /\ error_iterations' = Some(<<>>)
                                /\ exit_waves' = NoneWaves
                           ELSE UNCHANGED <<error_iterations, exit_waves>>
                        /\ warned' = (IsNone(reset) /\ HasError)
                        /\ UNCHANGED <<object, probe>>
                /\ positions_start' = trial'.positions_px_all
                /\ pc' = "loop"
                /\ args' = [NoArgs EXCEPT
                               !.max_iter = max_iter,
                               !.max_batch_size = IF IsNone(max_batch_size) THEN NumPatterns
                                                  ELSE Get(max_batch_size),
                               !.fix_positions_iter = fix_positions_iter,
                               !.use_projection_scheme = r.use_projection_scheme,
                               !.projection = r.projection,
                               !.step_size = IF r.keep_step_size THEN Some(StepSize)
                                             ELSE None]
                /\ a0' = 0
                /\ shuffled_indices' = Identity
                /\ outcome' = "running"
                /\ UNCHANGED <<aliases, projection_used, instanceVars, object_type,
                               positions_px,
                               positions_px_fractional, vectorized_patch_indices,
                               storeVars, batches, positions_local, error, fwd, completed>>

\* head of an iteration: error = 0.0 and the shuffled order of the tilts
TomographyIterationBegin ==
    /\ pc = "loop"
    /\ a0 < args.max_iter
    /\ trial' = [trial EXCEPT !.tilt_indices = TiltPermutation(rng)]
    /\ rng' = AfterShuffle(rng)
    /\ error' = 0
    /\ pc' = "tilt"
    /\ request' = NoRequest
    /\ UNCHANGED <<memoryVars, instanceVars, stateVars, storeVars, args, a0, batches,
                   shuffled_indices, positions_local, fwd, callerVars>>

\* one tilt of the iteration: the shuffle of its patterns, its batches with
\* the position correction under `if a0 >= fix_positions_iter:`, the positions
\* written back in pattern order, and the constraints of the tilt
TomographyTilt ==
    /\ pc = "tilt"
    /\ LET tilt == Head(trial.tilt_indices)
           start_tilt == (tilt - 1) * NumPatterns
           end_tilt == tilt * NumPatterns
           sh == Shuffled(args.use_projection_scheme, Identity, rng)
           positions_px_0 == Index(Slice(trial.positions_px_all, start_tilt, end_tilt), sh)
           initial_positions_px == Index(Slice(trial.positions_px_initial_all, start_tilt,
                                               end_tilt), sh)
           tilt_batches == GenerateBatches(NumPatterns, args.max_batch_size)
           last == tilt_batches[Len(tilt_batches)]
       IN  IF exit_waves.attr = "missing"
           THEN /\ Return("AttributeError")
                /\ UNCHANGED <<trial, rng, positions_px, positions_px_fractional,
                               vectorized_patch_indices, exit_waves>>
           ELSE \E positions_update \in (IF a0 >= args.fix_positions_iter THEN TrialUpdates
                                         ELSE {[k \in Patterns |-> <<0, 0>>]}) :
                LET corrected == IF a0 >= args.fix_positions_iter
                                 THEN TomographyPositionCorrection(
                                          positions_px_0, positions_update, StepSize, None,
                                          initial_positions_px, 0, 0)
                                 ELSE positions_px_0
                    restored == Index(corrected, Unshuffle(sh))
                    constrained ==
                        IF ~trial.collective_tilt_updates /\ ~(a0 < args.fix_positions_iter)
                        THEN PositionsCenterOfMassConstraint(
                                 restored, Slice(trial.positions_px_initial_all, start_tilt,
                                                 end_tilt))
                        ELSE restored
                IN  /\ trial' = [trial EXCEPT
                                    !.positions_px_all = Splice(trial.positions_px_all,
                                                                start_tilt, constrained),
                                    !.tilt_indices = Tail(trial.tilt_indices)]
                    /\ rng' = IF ~args.use_projection_scheme THEN AfterShuffle(rng) ELSE rng
                    /\ shuffled_indices' = sh
                    /\ positions_local' = corrected
                    /\ positions_px' = Slice(corrected, last[1], last[2])
                    /\ positions_px_fractional' = Fractional(Slice(positions_px_0, last[1],
                                                                   last[2]))
                    /\ vectorized_patch_indices' =
                           ExtractVectorizedPatchIndices(Slice(positions_px_0, last[1],
                                                               last[2]))
                    /\ exit_waves' = ArrayWaves(<<>>, <<>>)
                    /\ pc' = IF Tail(trial.tilt_indices) = <<>> THEN "end" ELSE "tilt"
                    /\ UNCHANGED <<args, a0, batches, error, fwd, outcome>>
    /\ UNCHANGED <<memoryVars, instanceVars, object_type, object, probe, error_iterations,
                   storeVars, request, calls, warned, completed>>

\* end of an iteration: the collective constraints, which take no positions,
\* and the error appended to the history
TomographyIterationEnd ==
    /\ pc = "end"
    /\ error_iterations' = Some(Append(Get(error_iterations), error))
    /\ a0' = a0 + 1
    /\ pc' = "loop"
    /\ UNCHANGED <<trial, memoryVars, instanceVars, object_type, object, probe, positions_px,
                   positions_px_fractional, vectorized_patch_indices, exit_waves,
                   storeVars, rng, args, batches, shuffled_indices, positions_local,
                   error, fwd, request, callerVars>>

\* after the loop: self.object, self.probe, self.error
TomographyStoreResult ==
    /\ pc = "loop"
    /\ a0 >= args.max_iter
    /\ published' = Some(<<object, probe>>)
    /\ IF args.max_iter = 0
       THEN /\ Return("UnboundLocalError")
            /\ UNCHANGED <<error_attr, completed>>
       ELSE /\ Return("ok")
            /\ error_attr' = Some(error)
            /\ completed' = completed + args.max_iter
    /\ UNCHANGED <<trial, memoryVars, instanceVars, stateVars, object_iterations,
                   probe_iterations, rng, request, calls, warned>>

NextTomography ==
    \/ TomographyReconstruct
    \/ TomographyIterationBegin
    \/ TomographyTilt
    \/ TomographyIterationEnd
    \/ TomographyStoreResult

SpecTomography == InitTomography /\ [][NextTomography]_vars

\* ------------------------------------------------------------------ claims
IsPrefix(s, t) == Len(s) <= Len(t) /\ SubSeq(t, 1, Len(s)) = s
\* a call is at the top of its main loop, before its first iteration
AtFirstIteration == pc = "loop" /\ a0 = 0 /\ request.config = "valid"
\* the step taken is a reconstruct() call
IsCall == pc = "idle" /\ calls' = calls + 1

\* C1: a call with max_batch_size set and a projection-set method fails before
\* the main loop, whatever the verbosity of the instance: the main loop never
\* runs a projection-set method in batches.
C1_BatchedProjectionNeverRuns ==
    ~(outcome = "running" /\ args.use_projection_scheme
      /\ args.max_batch_size < NumPatterns)

\* C2: a call with an unknown method name, an out-of-range parameter of a
\* one-parameter family or a generalized-projection parameter that is no triple
\* raises ValueError without entering the main loop, and leaves the instance
\* (reconstruction state, error history, snapshots, published results) as it
\* was, whatever reset was passed.
C2_BadConfigurationRejected ==
    [][(IsCall /\ request'.config \in {"unknown method", "out of range", "not a triple"})
        => /\ pc' = "idle"
           /\ outcome' = "ValueError"
           /\ UNCHANGED <<instanceVars, stateVars, storeVars>>]_vars
\* a call with reset=True was rejected on an instance holding earlier results
C2_Witness ==
    /\ pc = "idle"
    /\ request.config \in {"unknown method", "out of range", "not a triple"}
    /\ request.reset = Some(TRUE)
    /\ outcome = "ValueError"
    /\ HasError
    /\ Len(Get(error_iterations)) > 0

\* the table of the documentation, in scaled parameters
C3Family(method) ==
    CASE method \in {"DM_AP", "difference-map_alternating-projections"} -> "DM_AP"
      [] method \in {"RAAR", "relaxed-averaged-alternating-reflections"} -> "RAAR"
      [] method \in {"RRR", "relax-reflect-reflect"} -> "RRR"
      [] method \in {"SUPERFLIP", "charge-flipping"} -> "SUPERFLIP"
      [] method \in {"GD", "gradient-descent"} -> "GD"
      [] OTHER -> method
C3Table(method, param) ==
    LET p == param.val[1] IN
    CASE C3Family(method) = "DM_AP" -> Some(<<-p, ParamScale, ParamScale + p>>)
      [] C3Family(method) = "RAAR" -> Some(<<ParamScale - 2 * p, p, 2 * ParamScale>>)
      [] C3Family(method) = "RRR" -> Some(<<-p, p, 2 * ParamScale>>)
      [] C3Family(method) = "SUPERFLIP" -> Some(<<0, ParamScale, 2 * ParamScale>>)
      [] C3Family(method) = "generalized-projection" -> Some(param.val)
      [] OTHER -> None

\* C3: for every valid (method, parameter) the resolution of either class yields
\* the triple of the table, the same for a long alias as for its short name, and
\* gradient descent yields no triple and no projection scheme.
C3_ResolutionTable ==
    (pc = "resolved" /\ ConfigClass(request.method, request.param) = "valid")
        => /\ args.projection = C3Table(request.method, request.param)
           /\ args.use_projection_scheme = (C3Family(request.method) # "GD")
\* RAAR(0.5), by its long name, was resolved
C3_Witness ==
    /\ pc = "resolved"
    /\ request.method = "relaxed-averaged-alternating-reflections"
    /\ request.param = Scalar(1)
    /\ outcome = "ok"
    /\ args.projection = Some(<<ParamScale - 2, 1, 2 * ParamScale>>)

\* C4: DM_AP(1.0), RAAR(1.0) and RRR(1.0) resolve to one and the same triple,
\* hence to the same x = 1 - a - b and y = 1 - c.
C4_DifferenceMapPoint ==
    (/\ pc = "resolved"
     /\ C3Family(request.method) \in {"DM_AP", "RAAR", "RRR"}
     /\ request.param = Scalar(ParamScale))
        => LET dm == ResolveMethod("DM_AP", Scalar(ParamScale)).projection
               raar == ResolveMethod("RAAR", Scalar(ParamScale)).projection
           IN  /\ ~IsNone(args.projection)
               /\ args.projection = dm
               /\ args.projection = raar
               /\ ProjectionX(Get(args.projection)) = ProjectionX(Get(dm))
               /\ ProjectionY(Get(args.projection)) = ProjectionY(Get(dm))
\* RRR(1.0) was resolved
C4_Witness ==
    /\ pc = "resolved"
    /\ request.method = "RRR"
    /\ request.param = Scalar(ParamScale)
    /\ outcome = "ok"

\* C5: a call with reset=True reaches its first iteration in the state preprocess
\* left: initial object, probe and positions with the fractional parts and patch
\* indices of the initial positions, initial object type, exit waves None and an
\* empty error history.
C5_ResetRestoresPreprocessState ==
    (AtFirstIteration /\ request.reset = Some(TRUE))
        => /\ object = object_initial
           /\ probe = probe_initial
           /\ positions_px = positions_px_initial
           /\ positions_px_fractional = Fractional(positions_px_initial)
           /\ vectorized_patch_indices = ExtractVectorizedPatchIndices(positions_px_initial)
           /\ object_type = object_type_initial
           /\ exit_waves = NoneWaves
           /\ error_iterations = Some(<<>>)
\* a reset=True call after a call that moved the object and left exit waves
C5_Witness ==
    /\ AtFirstIteration
    /\ request.reset = Some(TRUE)
    /\ calls = 2
    /\ HasError
    /\ Get(published)[1] # object_initial

\* C6: a call with reset unset or False on an instance that completed a call
\* starts its first iteration from the object, probe, positions, object type and
\* exit waves the previous call left, and the entries of the error history stay
\* an unchanged prefix of it while the call runs.
C6_ContinuesFromPriorState ==
    [][/\ (IsCall /\ pc' = "loop" /\ request'.reset # Some(TRUE) /\ HasError)
            => UNCHANGED stateVars
       /\ (outcome = "running" /\ ~IsNone(error_iterations))
            => /\ ~IsNone(error_iterations')
               /\ IsPrefix(Get(error_iterations), Get(error_iterations'))]_vars
\* a reset=False call on an instance whose earlier call moved the object
C6_Witness ==
    /\ AtFirstIteration
    /\ request.reset = Some(FALSE)
    /\ HasError
    /\ exit_waves.attr = "array"
    /\ object # object_initial
    /\ Len(Get(error_iterations)) > 0

C8Lengths ==
    /\ ~IsNone(error_iterations) =>
          Len(Get(error_iterations)) = completed + (IF outcome = "running" THEN a0 ELSE 0)
    /\ (pc = "idle" /\ outcome = "ok") =>
          error_attr = Some(Get(error_iterations)[Len(Get(error_iterations))])
C8_ErrorHistoryAppendOnly ==
    [][/\ C8Lengths'
       /\ ~IsNone(error_iterations) =>
            \/ /\ ~IsNone(error_iterations')
               /\ IsPrefix(Get(error_iterations), Get(error_iterations'))
               /\ Len(Get(error_iterations')) <= Len(Get(error_iterations)) + 1
            \/ IsCall /\ request'.reset = Some(TRUE)]_vars
\* two calls returned, the second one continuing the history of the first
C8_Witness ==
    /\ pc = "idle"
    /\ outcome = "ok"
    /\ calls = 2
    /\ completed > MaxIter
    /\ Len(Get(error_iterations)) = completed

\* C9: while a gradient-descent call runs, self._exit_waves is never an array.
C9_GradientDescentKeepsNoExitWaves ==
    (outcome = "running" /\ ~args.use_projection_scheme /\ calls = 1)
        => exit_waves.attr # "array"

\* C10: in a projection-set call the pattern order is the identity, and the
\* exit waves a batch reads were written, slot by slot, with the patterns the
\* batch now pairs them with.
C10_SlotsFollowPatterns ==
    (outcome = "running" /\ args.use_projection_scheme)
        => /\ shuffled_indices = Identity
           /\ (pc = "forward" /\ exit_waves.attr = "array")
                => exit_waves.patterns = Slice(shuffled_indices, Start, End)

\* C11: a gradient-descent call given an explicit seed_random starts its main
\* loop with the random generator in the state of that seed, whatever the
\* state of the generator was before the call: its permutations and batches
\* are a function of the seed and of the reconstruction state.
C11_ShuffleReproducibleFromSeed ==
    (AtFirstIteration /\ ~args.use_projection_scheme /\ ~IsNone(request.seed_random))
        => rng \in SeedStates(request.seed_random)

\* the candidate of pattern k: current position minus the step-scaled update
C12Candidate(k) ==
    <<trial.positions[k][1] - StepSize * trial.update[k][1],
      trial.positions[k][2] - StepSize * trial.update[k][2]>>
\* the candidate of pattern k lies farther than the drift distance outside
\* the bounding box of the initial scan positions
C12Outside(k) ==
    LET xs == {positions_px_initial[j][1] : j \in DOMAIN positions_px_initial}
        ys == {positions_px_initial[j][2] : j \in DOMAIN positions_px_initial}
        d == Get(trial.distance)
        c == C12Candidate(k)
    IN  \/ \A x \in xs : c[1] > x + d
        \/ \A x \in xs : c[1] < x - d
        \/ \A y \in ys : c[2] > y + d
        \/ \A y \in ys : c[2] < y - d
\* C12: with a maximum drift distance configured, position correction returns
\* the position of a pattern unchanged if its candidate lies farther than the
\* distance outside the bounding box of the initial positions, and returns the
\* candidate for every other pattern of the batch: the rejection is per
\* pattern.
C12_DriftRejectionPerPattern ==
    (pc = "corrected" /\ ~IsNone(trial.distance))
        => \A k \in Patterns :
              trial.result[k] = IF C12Outside(k) THEN trial.positions[k] ELSE C12Candidate(k)
\* one pattern of the batch is rejected while another one moves
C12_Witness ==
    /\ pc = "corrected"
    /\ ~IsNone(trial.distance)
    /\ \E j, k \in Patterns :
          /\ C12Outside(j)
          /\ trial.update[j] # <<0, 0>>
          /\ ~C12Outside(k)
          /\ trial.update[k] # <<0, 0>>
          /\ trial.result[j] = trial.positions[j]
          /\ trial.result[k] # trial.positions[k]

\* the object of the trial is a unit object: a potential identically 0 or a
\* complex object identically 1
C13UnitObject ==
    \A r \in DOMAIN trial.object.array : \A c \in DOMAIN trial.object.array[r] :
        trial.object.array[r][c] = IF trial.object.type = "potential" THEN 0 ELSE 1
\* C13: on a unit object the overlap operator returns object patches
\* identically 1 and an overlap equal to the shifted probes, for every pattern
\* and every pixel of the window, whatever the patch indices are.
C13_UnitObjectGivesShiftedProbe ==
    (pc \in {"position", "corrected"} /\ C13UnitObject)
        => /\ \A k \in Patterns : \A i, j \in Pixels : trial.object_patches[k][i][j] = 1
           /\ trial.overlap = trial.shifted_probes
\* the overlap operator has run on a unit potential whose window wraps across
\* the edge of the object, with a probe that is not constant
C13_Witness ==
    /\ pc = "position"
    /\ C13UnitObject
    /\ trial.object.type = "potential"
    /\ \E k \in Patterns : trial.rows[k][1] = 0 /\ trial.rows[k][2] = ObjectShape[1] - 1
    /\ \E k \in Patterns : Fractional(trial.positions)[k] # <<0, 0>>
    /\ \E k \in Patterns : \E i, j \in Pixels :
          trial.shifted_probes[k][i][j] # trial.shifted_probes[k][1][1]
    /\ trial.overlap = trial.shifted_probes

\* every index of a set of patch indices lies inside the given extent
C14InRange(indices, extent) ==
    \A k \in DOMAIN indices : \A i \in DOMAIN indices[k] :
        0 <= indices[k][i] /\ indices[k][i] < extent
\* C14: every patch index used to read the object lies inside the object
\* array, 0 <= row < Px and 0 <= col < Py for every pattern and every pixel of
\* the window, also for windows that extend past an edge of the object and for
\* the indices moved by one pixel that position correction reads.
C14_PatchIndicesInsideObject ==
    /\ pc \in {"position", "corrected"}
          => /\ C14InRange(trial.rows, ObjectShape[1])
             /\ C14InRange(trial.cols, ObjectShape[2])
    /\ pc = "corrected"
          => /\ C14InRange(trial.rolled_rows, ObjectShape[1])
             /\ C14InRange(trial.rolled_cols, ObjectShape[2])
\* position correction has read a window that lies across the lower edge of
\* the object and one whose last row moves past the upper edge
C14_Witness ==
    /\ pc = "corrected"
    /\ \E k \in Patterns : Round(trial.positions[k][1]) + FftFreq(RoiSize)[RoiSize] < 0
    /\ \E k \in Patterns : Round(trial.positions[k][2]) >= ObjectShape[2]
    /\ \E k \in Patterns : \E i \in Pixels :
          trial.rows[k][i] = ObjectShape[1] - 1 /\ trial.rolled_rows[k][i] = 0
    /\ C14InRange(trial.rolled_rows, ObjectShape[1])

\* C15: after a successful preprocess the probe has the shape of the region
\* of interest, whatever the kind of the initial guess; a guess of the shape of
\* the region of interest is accepted and a guess of another shape is rejected
\* with an error.
C15_ProbeShapeMatchesRoi ==
    (pc = "idle" /\ "guess" \in DOMAIN trial)
        => /\ trial.preprocessed => trial.probe_shape = trial.roi_shape
           /\ (trial.guess.kind = "none" \/ trial.guess.shape = trial.roi_shape)
                 => outcome = "ok"
           /\ (trial.guess.kind # "none" /\ trial.guess.shape # trial.roi_shape)
                 => outcome = "ValueError"

\* C16: the derived position data match the stored positions: when the
\* overlap operator has run on a batch, and when preprocess or reconstruct has
\* returned, the stored fractional positions are those of the stored positions
\* and the stored patch indices are those of the same positions, pattern by
\* pattern.
C16_DerivedDataMatchPositions ==
    (pc = "adjoint" \/ (pc = "idle" /\ outcome \in {"none", "ok"}))
        => /\ positions_px_fractional = Fractional(positions_px)
           /\ vectorized_patch_indices = ExtractVectorizedPatchIndices(positions_px)

C18WarmUpStep ==
    /\ pc = "position" => a0 >= args.fix_positions_iter
    /\ (pc = "constraints" /\ a0 < args.fix_positions_iter) => positions_px' = positions_start
\* C18: position correction and the position constraints run only from
\* iteration fix_positions_iter on, an iteration below the threshold ends with
\* the positions it started with (same values, same order), and with the
\* default threshold the positions after a call are those the call started
\* with, however the call ends.
C18_PositionsFixedDuringWarmUp ==
    [][/\ C18WarmUpStep
       /\ (pc # "idle" /\ pc' = "idle" /\ args.fix_positions_iter = Inf)
             => positions_px' = positions_start]_vars

C21_StepOrder ==
    [][/\ pc = "loop" => pc' \in {"loop", "forward", "idle"}
       /\ pc = "forward"
             => /\ pc' \in {"adjoint", "idle"}
                /\ object' = object /\ probe' = probe
                /\ pc' = "adjoint"
                      => fwd'.batch_error = FourierError(fwd'.amplitudes, fwd'.overlap)
       /\ (pc = "adjoint" /\ pc' # "idle")
             => IF a0 >= args.fix_positions_iter THEN pc' = "position"
                ELSE pc' = (IF Len(batches) > 1 THEN "forward" ELSE "constraints")
       /\ pc = "position" => pc' = (IF Len(batches) > 1 THEN "forward" ELSE "constraints")
       /\ pc' = "constraints" => batches' = <<>>
       /\ pc = "constraints"
             => /\ pc' = "loop" /\ a0' = a0 + 1
                /\ error_iterations' = Some(Append(Get(error_iterations), error))
                /\ Len(positions_px') = NumPatterns
                /\ args.store_iterations
                      => /\ Get(object_iterations') = Append(Get(object_iterations), object')
                         /\ Get(probe_iterations') = Append(Get(probe_iterations), probe')
       /\ (pc # "constraints" /\ pc # "idle")
             => UNCHANGED <<error_iterations, object_iterations, probe_iterations>>]_vars
\* the second iteration of a call with fix_positions_iter = 1 has corrected
\* the positions of its batch and is about to run the constraint chain
C21_Witness ==
    /\ pc = "constraints"
    /\ a0 = 1
    /\ args.fix_positions_iter = 1
    /\ positions_local # Index(positions_start, shuffled_indices)
    /\ Len(Get(error_iterations)) >= 1

\* the <<start, end>> pairs b cut 0 .. n into consecutive non-empty slices of
\* at most max items each
C22Partition(b, n, max) ==
    /\ b # <<>>
    /\ b[1][1] = 0
    /\ b[Len(b)][2] = n
    /\ \A i \in DOMAIN b : b[i][1] < b[i][2] /\ b[i][2] - b[i][1] <= max
    /\ \A i \in 1 .. (Len(b) - 1) : b[i][2] = b[i + 1][1]
\* the slices between the consecutive elements of a set of cut points
C22Slices(cuts) ==
    LET n == Cardinality(cuts)
        q == CHOOSE f \in [1 .. n -> cuts] : \A i \in 1 .. (n - 1) : f[i] < f[i + 1]
    IN  [i \in 1 .. (n - 1) |-> <<q[i], q[i + 1]>>]
\* C22: in every iteration the batches partition the patterns: the slices
\* cover the shuffled index array once, the array is a permutation of the
\* pattern indices, no batch exceeds max_batch_size, without max_batch_size
\* there is one batch of all the patterns, and the amplitudes and the
\* positions of a batch are those of the same patterns.
C22_BatchesPartitionPatterns ==
    /\ pc \in {"forward", "adjoint", "position"}
          => /\ shuffled_indices \in IndexPermutations
             /\ \E cuts \in SUBSET (0 .. NumPatterns) :
                   /\ Cardinality(cuts) >= 2
                   /\ C22Partition(C22Slices(cuts), NumPatterns, args.max_batch_size)
                   /\ \E d \in 0 .. (Cardinality(cuts) - 2) :
                         batches = SubSeq(C22Slices(cuts), d + 1, Cardinality(cuts) - 1)
             /\ args.max_batch_size >= NumPatterns => batches = <<<<0, NumPatterns>>>>
    /\ (pc = "adjoint" /\ a0 <= args.fix_positions_iter)
          => /\ Len(positions_px) = End - Start
             /\ Len(fwd.amplitudes) = End - Start
             /\ \A k \in 1 .. (End - Start) :
                   /\ positions_px[k] = positions_start[shuffled_indices[Start + k]]
                   /\ fwd.amplitudes[k] = Amplitude(shuffled_indices[Start + k])
\* the second batch of a shuffled iteration has been read
C22_Witness ==
    /\ pc = "adjoint"
    /\ args.max_batch_size < NumPatterns
    /\ Start > 0
    /\ shuffled_indices # Identity
    /\ fwd.amplitudes = <<Amplitude(shuffled_indices[Start + 1])>>

\* the shifts the recentring of the positions can apply, in half pixels
C23Shifts == (-4 * NumVal) .. (4 * NumVal)
C24_SingleObjectSwitch ==
    [][object_type' # object_type
          => \/ pc = "idle" /\ object_type' = object_type_initial
             \/ /\ pc = "loop"
                /\ a0 = args.switch_object_iter
                /\ object_type = object_type_initial
                /\ object' = (IF object_type = "potential" THEN ExpI(object)
                              ELSE Angle(object))]_vars

\* the regularizers in the order of the chain, each with the array it acts
\* on and with its gate
C25Order ==
    <<<<"object", "_object_gaussian_constraint", "gaussian_filter">>,
      <<"object", "_object_butterworth_constraint", "butterworth_filter">>,
      <<"object", "_object_shrinkage_constraint", "shrinkage">>,
      <<"object", "_object_threshold_constraint", "complex">>,
      <<"object", "_object_positivity_constraint", "object_positivity">>,
      <<"probe", "_probe_center_of_mass_constraint", "fix_com">>,
      <<"probe", "_probe_residual_aberration_filtering_constraint", "probe_gaussian_filter">>,
      <<"probe", "_probe_radial_symmetrization_constraint", "symmetrize_probe">>,
      <<"probe", "_probe_amplitude_constraint", "fix_probe_amplitude">>,
      <<"probe", "_probe_fourier_amplitude_constraint", "fix_probe_fourier_amplitude">>,
      <<"positions", "_positions_center_of_mass_constraint", "recentre">>,
      <<"positions", "_positions_affine_transformation_constraint", "affine">>>>
\* the gate of a regularizer is true
C25Enabled(gate) ==
    CASE gate = "complex" -> object_type = "complex"
      [] gate = "object_positivity" ->
            object_type # "complex" /\ "object_positivity" \in trial.gates
      [] gate = "fix_probe_fourier_amplitude" ->
            /\ "fix_probe_fourier_amplitude" \in trial.gates
            /\ "fix_probe_amplitude" \notin trial.gates
      [] gate = "recentre" -> "fix_positions" \notin trial.gates
      [] gate = "affine" ->
            /\ "fix_positions" \notin trial.gates
            /\ "global_affine_transformation" \in trial.gates
      [] OTHER -> gate \in trial.gates
\* the names of the enabled regularizers of one array, in the order of the chain
RECURSIVE C25Expected(_, _)
C25Expected(array, i) ==
    IF i > Len(C25Order) THEN <<>>
    ELSE (IF C25Order[i][1] = array /\ C25Enabled(C25Order[i][3])
          THEN <<C25Order[i][2]>> ELSE <<>>) \o C25Expected(array, i + 1)
\* C25: the constraint chain applies its enabled regularizers in one fixed
\* order (object: Gaussian, Butterworth, shrinkage, then threshold or
\* positivity; probe: centre of mass, residual-aberration filter,
\* symmetrization, then the real-space amplitude constraint or else the
\* Fourier-amplitude one; positions: recentring, then the affine constraint),
\* and a regularizer whose gate is false is skipped and leaves its array as
\* it was.
C25_ConstraintOrder ==
    pc = "chained"
        => /\ trial.chain[1] = C25Expected("object", 1)
           /\ trial.chain[2] = C25Expected("probe", 1)
           /\ trial.chain[3] = C25Expected("positions", 1)
\* both probe amplitude gates are true, with every other probe regularizer
\* and the position constraints enabled
C25_Witness ==
    /\ pc = "chained"
    /\ {"fix_probe_amplitude", "fix_probe_fourier_amplitude", "fix_com",
        "symmetrize_probe", "probe_gaussian_filter", "global_affine_transformation",
        "gaussian_filter"} \subseteq trial.gates
    /\ "fix_positions" \notin trial.gates
    /\ Len(trial.chain[2]) = 4
    /\ Len(trial.chain[3]) = 2

\* the residues an estimate can take
C26Values == 0 .. (NumVal - 1)
\* C26: a gradient-descent adjoint step returns the previous object (and,
\* unless the probe is fixed, the previous probe) plus step_size times the
\* computed update; a projection-set adjoint step returns the computed value
\* alone, whatever object, probe and step size are passed in.
C26_AdjointApplication ==
    [][(pc = "adjoint" /\ Len(exit_waves.slots) = Len(fwd.shifted_probes))
          => LET fix_probe == a0 < args.fix_probe_iter
                 object_update == ObjectUpdate(object_type, fwd.object_patches,
                                               fwd.shifted_probes, exit_waves.slots)
                 probe_update == ProbeUpdate(fwd.object_patches, exit_waves.slots)
             IN  IF args.use_projection_scheme
                 THEN \A o \in C26Values, p \in C26Values, s \in {None, Some(0), Some(1)} :
                         LET u == Adjoint(o, p, object_type, fwd.object_patches,
                                          fwd.shifted_probes, exit_waves.slots, TRUE, s,
                                          fix_probe)
                         IN  /\ object' = u[1]
                             /\ ~fix_probe => probe' = u[2]
                             /\ fix_probe => probe' = probe
                 ELSE /\ object' = Mod(object + Get(args.step_size) * object_update)
                      /\ probe' = IF fix_probe THEN probe
                                  ELSE Mod(probe + Get(args.step_size) * probe_update)]_vars
\* gradient descent in two batches: the adjoint of the first batch has added
\* a non-zero update and the second batch is still to come
C26_Witness ==
    /\ pc = "forward"
    /\ ~args.use_projection_scheme
    /\ args.max_batch_size = 1
    /\ Len(batches) = 1
    /\ fwd # NoFwd
    /\ Len(exit_waves.slots) = Len(fwd.shifted_probes)
    /\ Mod(Get(args.step_size) * ObjectUpdate(object_type, fwd.object_patches, fwd.shifted_probes, exit_waves.slots)) # 0

\* C27: the first projection-set Fourier projection of a reconstruction
\* (after preprocess or a fresh start, also when the call continues without
\* reset a reconstruction run with gradient descent) finds the exit-wave
\* state uninitialized and seeds it with the overlap: the state it leaves is
\* the projection of a state equal to the overlap and has one slot per pattern.
C27_FirstUseSeedsExitWaves ==
    [][(pc = "forward" /\ args.use_projection_scheme /\ ~projection_used /\ pc' = "adjoint")
          => /\ exit_waves.attr = "none"
             /\ exit_waves'.slots
                    = ProjectionSetsFourierProjection(fwd'.amplitudes, fwd'.overlap,
                                                      Some(fwd'.overlap),
                                                      Get(args.projection))[1]
             /\ Len(exit_waves'.slots) = NumPatterns]_vars

\* C28: the first reconstruct call on a freshly preprocessed instance, with
\* accepted arguments and max_iter >= 1, enters its main loop with an empty
\* error history and the exit-wave state None, whatever reset is, and returns
\* only after max_iter iterations, with an error history of that length and
\* with the object, the probe and the error published.
C28_FirstCallCompletes ==
    [][/\ (calls = 0 /\ pc' = "loop" /\ args'.max_iter >= 1)
            => /\ error_iterations' = Some(<<>>)
               /\ exit_waves'.attr = "none"
       /\ (calls = 1 /\ pc # "idle" /\ args.max_iter >= 1 /\ pc' = "idle")
            => /\ outcome' = "ok"
               /\ ~IsNone(error_iterations')
               /\ Len(Get(error_iterations')) = args.max_iter
               /\ ~IsNone(published')
               /\ ~IsNone(error_attr')]_vars

\* C29: whenever the snapshot lists exist, between two iterations and between
\* two calls, the object snapshots and the probe snapshots are as many as the
\* entries of the error history.
C29_SnapshotsAligned ==
    (pc \in {"idle", "loop"} /\ ~IsNone(object_iterations) /\ ~IsNone(error_iterations))
        => /\ ~IsNone(probe_iterations)
           /\ Len(Get(object_iterations)) = Len(Get(error_iterations))
           /\ Len(Get(probe_iterations)) = Len(Get(error_iterations))

\* a reconstruct call of the tomography class is made
C30Call == pc = "idle" /\ calls' = calls + 1
\* the positions of all tilts and every other part of the instance are kept
C30Untouched == UNCHANGED <<trial, instanceVars, stateVars, storeVars, rng>>
\* C30 as stated: every tomography call with fix_positions_iter < max_iter
\* is rejected with NotImplementedError before any state is changed.
C30_RejectedWithNotImplementedError ==
    [][(C30Call /\ request'.fix_positions_iter < request'.max_iter)
          => (pc' = "idle" /\ outcome' = "NotImplementedError" /\ C30Untouched)]_vars
\* C30: in the tomography reconstruct position correction is never executed.
\* A call with fix_positions_iter < max_iter is rejected before any state is
\* changed, with NotImplementedError when its method, its parameter and its
\* batch size pass the earlier checks and with the error of those checks
\* otherwise; in a call that reaches the main loop the iteration index is
\* below fix_positions_iter in every iteration, and the scan positions of all
\* tilts stay those the call started with (after its reset).
C30_NoPositionCorrection ==
    [][/\ (C30Call /\ request'.fix_positions_iter < request'.max_iter)
            => /\ pc' = "idle"
               /\ outcome' \in {"NotImplementedError", "ValueError", "TypeError"}
               /\ outcome' = "NotImplementedError"
                     <=> request'.earlier_checks = "ok"
               /\ C30Untouched
       /\ pc \in {"tilt", "end"} => a0 < args.fix_positions_iter
       /\ (pc # "idle" /\ calls' = calls) => trial'.positions_px_all = positions_start]_vars
\* the second tilt of an iteration of a gradient-descent call has been
\* processed with shuffled patterns, in a second call with fix_positions_iter
\* equal to max_iter
C30_Witness ==
    /\ pc = "end"
    /\ calls = 2
    /\ ~args.use_projection_scheme
    /\ shuffled_indices # Identity
    /\ args.fix_positions_iter = MaxIter
    /\ args.max_iter = MaxIter
    /\ trial.positions_px_all = positions_start


====
